---- MODULE Spec2Model ----
(***************************************************************************)
(* A model of the streaming speech clients of the voice assistant:         *)
(*   - XFyunASRStream (xfyun_asr_stream.py): the receiver callbacks, the   *)
(*     sender thread started by on_open, the caller's add_audio_frame /    *)
(*     finish_recording / wait_result;                                     *)
(*   - XFyunTTSStream (xfyun_tts_stream.py): on_message, the playback      *)
(*     thread and synthesize_and_play;                                     *)
(*   - the chunking loop of VoiceAssistant.listen (voice_assistant.py).    *)
(*                                                                         *)
(* Text is a sequence of characters; a character is written by its name    *)
(* ("ni" for U+4F60, "juhao" for the full-width full stop U+3002, "sp"     *)
(* for a blank).  Audio is a sequence of bytes (0..255).                   *)
(***************************************************************************)
EXTENDS Integers, Sequences, FiniteSets, TLC

(***************************************************************************)
(* Bounds of the model.                                                    *)
(***************************************************************************)
\* longest text one inbound ASR message carries (characters), pure-reduction runs
MaxLen == 3
\* longest accumulator the pure-reduction runs start from
MaxAcc == 2
\* length in bytes of the longest recorded utterance
MaxAudio == 3
\* largest frame size (bytes) the orchestrator cuts the utterance into
MaxChunk == 2
\* inbound messages the server sends in one ASR session
MaxMsgs == 2
\* inbound messages the server sends in one TTS call
MaxTTSMsgs == 2
\* iterations of wait_result's polling loop before its timeout has elapsed
TimeoutTicks == 1
\* frames a detector is given in any order of speech and silence
MaxVadFrames == 7
MaxLiteFrames == 7
\* of these, the frames that are not of the detector's frame size
MaxOddFrames == 1
\* frames of a run of speech followed by a run of silence
MaxRun == 42
\* the keywords of a wake-word detector
MaxKeywords == 2
\* the detect calls made on a detector
MaxDetects == 3
\* the wake-ups of a run in wake-word mode
MaxWakes == 2
\* the create_url calls of a run
MaxUrlCalls == 2
\* how far the clock of a run goes, in ticks
MaxClock == 3
\* the clock's resolution; a date has that of a second
TicksPerSecond == 2
\* frames of a stream of any shape given to a recording
MaxRecFrames == 7

(***************************************************************************)
(* Program constants.                                                      *)
(***************************************************************************)
STATUS_FIRST_FRAME == 0
STATUS_CONTINUE_FRAME == 1
STATUS_LAST_FRAME == 2

\* The marks the final-status branch of on_message compares the stripped
\* text with: full-width  . , ! ? ; :  and the enumeration comma.
PunctuationMarks ==
    {"juhao", "douhao", "tanhao", "wenhao", "fenhao", "maohao", "dunhao"}

\* Characters str.strip() removes.
Whitespace == {"sp"}

(***************************************************************************)
(* Python's string operations, on sequences of characters.                 *)
(***************************************************************************)
RECURSIVE lstrip(_)
lstrip(t) ==
    IF t # <<>> /\ Head(t) \in Whitespace THEN lstrip(Tail(t)) ELSE t

RECURSIVE rstrip(_)
rstrip(t) ==
    IF t # <<>> /\ t[Len(t)] \in Whitespace
    THEN rstrip(SubSeq(t, 1, Len(t) - 1))
    ELSE t

strip(t) == rstrip(lstrip(t))

\* t.startswith(p)
startswith(t, p) == Len(p) <= Len(t) /\ SubSeq(t, 1, Len(p)) = p

\* t in a  (substring test)
contains(a, t) ==
    \E i \in 0..(Len(a) - Len(t)) : SubSeq(a, i + 1, i + Len(t)) = t

(***************************************************************************)
(* XFyunASRStream.on_message: the text of a message and the reduction.     *)
(***************************************************************************)
\* The loops over result["ws"] / ws_item["cw"]: the words w of the message
\* in order, empty ones skipped, concatenated.  A word is given here by its
\* characters one at a time; "" is an empty word.
RECURSIVE message_text(_)
message_text(words) ==
    IF words = <<>> THEN <<>>
    ELSE IF Head(words) = "" THEN message_text(Tail(words))
    ELSE <<Head(words)>> \o message_text(Tail(words))

\* status == 2 branch, entered with a non-empty text
reduce_final(a, text) ==
    IF (Len(strip(text)) = 1 /\ strip(text)[1] \in PunctuationMarks)
       \/ Len(strip(text)) <= 1
    THEN a
    ELSE text

\* (a variant: an interim text replaces the accumulator as a final one does)
reduce_interim_replaces(a, text) == text

\* (a variant: the text is appended without the test of line 140)
reduce_interim_appends(a, text) ==
    IF a = <<>> THEN text
    ELSE IF startswith(text, a) THEN text
    ELSE IF Len(text) > Len(a) THEN text
    ELSE a \o text

\* (a variant: `>=` for `>` in line 137)
reduce_interim_ge(a, text) ==
    IF a = <<>> THEN text
    ELSE IF startswith(text, a) THEN text
    ELSE IF Len(text) >= Len(a) THEN text
    ELSE IF ~contains(a, text) THEN a \o text
    ELSE a

\* status 0/1 branch, entered with a non-empty text (lines 133-141)
reduce_interim(a, text) ==
    IF a = <<>> THEN text
    ELSE IF startswith(text, a) THEN text
    ELSE IF Len(text) > Len(a) THEN text
    ELSE IF ~contains(a, text) THEN a \o text
    ELSE a

\* lines 121-143: `if text:` and the two branches
reduce(a, st, text) ==
    IF text = <<>> THEN a
    ELSE IF st = 2 THEN reduce_final(a, text)
    ELSE reduce_interim(a, text)


(***************************************************************************)
(* base64.b64encode / b64decode on byte sequences.  A base64 symbol is its *)
(* 6-bit value 0..63; the padding character "=" is Pad.                    *)
(***************************************************************************)
Pad == 64

b64group(b) ==
    LET n  == Len(b)
        b2 == IF n >= 2 THEN b[2] ELSE 0
        b3 == IF n >= 3 THEN b[3] ELSE 0
        v  == b[1] * 65536 + b2 * 256 + b3
        s1 == v \div 262144
        s2 == (v \div 4096) % 64
        s3 == (v \div 64) % 64
        s4 == v % 64
    IN  IF n >= 3 THEN <<s1, s2, s3, s4>>
        ELSE IF n = 2 THEN <<s1, s2, s3, Pad>>
        ELSE <<s1, s2, Pad, Pad>>

RECURSIVE b64encode(_)
b64encode(b) ==
    IF b = <<>> THEN <<>>
    ELSE IF Len(b) <= 3 THEN b64group(b)
    ELSE b64group(SubSeq(b, 1, 3)) \o b64encode(SubSeq(b, 4, Len(b)))

\* what b64decode accepts: whole groups of four, padding only at the very end
b64valid(s) ==
    /\ Len(s) % 4 = 0
    /\ \A i \in 1..Len(s) :
          s[i] = Pad => /\ i >= Len(s) - 1
                        /\ (i = Len(s) - 1 => s[Len(s)] = Pad)

b64ungroup(g) ==
    LET s3 == IF g[3] = Pad THEN 0 ELSE g[3]
        s4 == IF g[4] = Pad THEN 0 ELSE g[4]
        v  == g[1] * 262144 + g[2] * 4096 + s3 * 64 + s4
        b1 == v \div 65536
        b2 == (v \div 256) % 256
        b3 == v % 256
    IN  IF g[3] = Pad THEN <<b1>>
        ELSE IF g[4] = Pad THEN <<b1, b2>>
        ELSE <<b1, b2, b3>>

RECURSIVE b64decode(_)
b64decode(s) ==
    IF Len(s) < 4 THEN <<>>
    ELSE b64ungroup(SubSeq(s, 1, 4)) \o b64decode(SubSeq(s, 5, Len(s)))

(***************************************************************************)
(* State.                                                                  *)
(***************************************************************************)
VARIABLES
    \* which client call the orchestrator is making: "asr" (listen) or "tts" (speak)
    call,
    \* ---- XFyunASRStream fields (__init__, lines 44-49)
    result_text,    \* the accumulator
    is_finished,    \* the completion flag
    audio_queue,    \* queue.Queue of frames; the sentinel None ends it
    frame_count,
    status,         \* phase the sender gives the next audio frame
    ws,             \* connection: "none", "connecting", "open", "closing", "closed"
    \* ---- threads of one ASR session
    sender_pc,      \* send_audio: "none", "check", "get", "done"
    caller_pc,      \* caller: "init", "feeding", "wait_loop", "wait_close",
                    \*         "wait_return", "returned"
    elapsed,        \* polling iterations wait_result has slept
    wait_ret,       \* what wait_result returned
    \* ---- the orchestrator's recorded utterance (VoiceAssistant.listen)
    audio_data,     \* the recorded bytes
    chunk_size,     \* recorder.chunk * 2
    pos,            \* the loop index i of range(0, len(audio_data), chunk_size)
    \* ---- history of the ASR session
    sent,           \* envelopes passed to ws.send, in order
    enqueued,       \* frames passed to add_audio_frame, in order
    sentinel_at,    \* frames enqueued when finish_recording was called, -1 before
    fin_open,       \* finish_recording was called on an open, unfinished session
    sender_exit,    \* why send_audio ended: "none", "sentinel", "finished", "failure"
    n_msgs,         \* inbound messages handled
    asr_end,        \* what first marked the session finished: "none", "final",
                    \* "code", "exception", "close", "sender", "timeout"
    \* ---- probes of the pure-reduction runs
    asr_msg,        \* the inbound message on_message was applied to
    asr_prev,       \* the accumulator before it
    \* ---- XFyunTTSStream fields (__init__, lines 51-57)
    tts_is_finished,  \* is_finished: the completion flag
    tts_audio_queue,  \* audio_queue: decoded chunks waiting to be played
    save_to_file,
    file_data,        \* chunks kept for the save file
    \* ---- threads of one synthesize_and_play call
    tts_ws,           \* connection: "none", "connecting", "open", "closing", "closed"
    tts_pc,           \* caller: "init", "run" (in run_forever), "wait", "returned"
    play_pc,          \* play_stream: "none", "open", "loop", "get", "empty",
                      \* "done" (the loop was left), "failed" (an exception)
    tts_ret,          \* what synthesize_and_play returned: "none", TRUE as "True"
    \* ---- history of the TTS call
    played,           \* chunks written to the audio sink, in order
    tts_put,          \* chunks put on the queue, in order, each with the
                      \* seq of its message
    saved,            \* contents written to the save file, one entry per write
    tts_n_msgs,       \* inbound messages handled
    tts_end           \* what first marked the call finished: "none", "final",
                      \* "code", "exception", "close"

VARIABLES
    \* ---- VADDetector (vad_detector.py): constructor arguments and fields
    vad_cfg,            \* [sample_rate, min_speech_duration_ms,
                        \*  min_silence_duration_ms, window_size_samples]
    vad_is_speaking,    \* is_speaking
    vad_speech_frames,  \* speech_frames
    vad_silence_frames, \* silence_frames
    vad_total_frames,   \* total_frames
    min_speech_frames,
    min_silence_frames,
    vad_ret,            \* what the last process_frame returned
    vad_hist,           \* is_speech of the frames processed since reset
    \* ---- VADDetectorLite (vad_detector_lite.py)
    lite_cfg,           \* [sample_rate, frame_duration_ms,
                        \*  padding_duration_ms, min_silence_duration_ms]
    frame_size_bytes,
    padding_frames,
    lite_silence_frames,  \* silence_frames: the stop threshold
    lite_is_speaking,   \* is_speaking
    triggered,
    voiced_frames,      \* the utterance buffer
    ring_buffer,        \* deque(maxlen = padding_frames) of (frame, is_speech)
    silence_counter,
    lite_total_frames,  \* total_frames
    lite_ret,           \* what the last process_frame returned
    lite_hist,          \* (frame, is_speech) of the frames processed since
                        \* reset, the frame as it was passed in
    trigger_at,         \* the number of the frame that triggered, 0: none yet
    \* ---- AudioRecorder.record_with_vad / record_with_vad_lite
    \*      (audio_utils.py): the locals of one call
    rec_pc,             \* "idle", "loop" (lines 277 / 394), "returned"
    rec_max,            \* max_duration, in frame durations
    rec_frames,         \* frames
    rec_frame_count,    \* frame_count
    speech_detected,
    rec_end,            \* how the loop ended: "", "stop", "deadline",
                        \* "interrupt"
    rec_ret,            \* what the call returned: (data, duration)
    rec_trigger_at,     \* the frame at which vad.is_speaking became true,
                        \* 0: not yet
    \* ---- PorcupineDetector / PorcupineCustomDetector
    \*      (wake_word_detector_porcupine.py, ..._custom.py)
    is_active,
    porcupine,          \* "None" or "engine"
    detect_ret,         \* what the last detect returned:
                        \* [detected, keyword_index]
    engine_in,          \* what the last detect passed to porcupine.process
    engine_out,         \* what porcupine.process did in the last detect
    detect_arg,         \* the audio_frame of the last detect
    detect_calls,       \* the detect calls made
    \* ---- VoiceAssistant.run_with_wake_word (voice_assistant.py)
    wake_pc,            \* where the loop is
    wake_cfg,           \* [response_audio: the file exists,
                        \*  return_to_wake_mode]
    wake_stream,        \* the wake-word capture stream: "none", "active",
                        \*  "stopped", "closed"
    capture,            \* record_with_vad_lite's capture stream is open
    playback,           \* what is being played: "none", "response", "reply"
    wake_count,
    \* ---- create_url (xfyun_asr_stream.py, xfyun_tts_stream.py)
    clock,              \* the time, in ticks of 1 / TicksPerSecond s
    tz_offset,          \* the local time zone, in seconds east of UTC
    api_key,
    api_secret,
    url_calls,          \* the create_url calls made: what was read and built
    \* ---- what is left of an ASR session when start_recognition is called
    \*      again before its threads have ended
    old_sender_pc,      \* the earlier send_audio thread, as sender_pc
    old_ws,             \* the earlier connection, as ws
    old_blocked,        \* the earlier sender is inside get on the earlier queue
    old_taken           \* queue items the earlier sender took since

vadVars == <<vad_cfg, vad_is_speaking, vad_speech_frames, vad_silence_frames,
             vad_total_frames, min_speech_frames, min_silence_frames, vad_ret,
             vad_hist>>

liteVars == <<lite_cfg, frame_size_bytes, padding_frames, lite_silence_frames,
              lite_is_speaking, triggered, voiced_frames, ring_buffer,
              silence_counter, lite_total_frames, lite_ret, lite_hist,
              trigger_at>>

asrVars == <<result_text, is_finished, audio_queue, frame_count, status, ws,
             sender_pc, caller_pc, elapsed, wait_ret, audio_data, chunk_size,
             pos, sent, enqueued, sentinel_at, fin_open, sender_exit, n_msgs,
             asr_end>>

probeVars == <<asr_msg, asr_prev>>

ttsVars == <<tts_is_finished, tts_audio_queue, save_to_file, file_data, tts_ws,
             tts_pc, play_pc, tts_ret, played, tts_put, saved, tts_n_msgs,
             tts_end>>

recVars == <<rec_pc, rec_max, rec_frames, rec_frame_count, speech_detected,
             rec_end, rec_ret, rec_trigger_at>>

wakeVars == <<is_active, porcupine, detect_ret, engine_in, engine_out,
              detect_arg, detect_calls, wake_pc, wake_cfg, wake_stream,
              capture, playback, wake_count>>

signVars == <<clock, tz_offset, api_key, api_secret, url_calls>>

overlapVars == <<old_sender_pc, old_ws, old_blocked, old_taken>>

vars == <<call, asrVars, probeVars, ttsVars, vadVars, liteVars, recVars,
          wakeVars, signVars, overlapVars>>

\* what an action of the ASR client leaves alone
nonASR == <<call, probeVars, ttsVars, vadVars, liteVars, recVars,
            wakeVars, signVars, overlapVars>>
\* what an action of the TTS client leaves alone
nonTTS == <<call, probeVars, asrVars, vadVars, liteVars, recVars,
            wakeVars, signVars, overlapVars>>

(***************************************************************************)
(* Inbound ASR messages: {code, data: {status, result: {ws: [...]}}}.      *)
(* json_ok = FALSE is a message json.loads rejects; code = -1 is also what *)
(* msg.get("code", -1) gives when the field is missing.                    *)
(***************************************************************************)
ASRMsg(ok, code, hd, st, hr, hw, words) ==
    [json_ok |-> ok, code |-> code, has_data |-> hd, status |-> st,
     has_result |-> hr, has_ws |-> hw, words |-> words]

NoMsg == ASRMsg(TRUE, 0, FALSE, 0, FALSE, FALSE, <<>>)

SeqsUpTo(S, n) == UNION {[1..k -> S] : k \in 0..n}

\* the messages of the pure-reduction runs: every text up to MaxLen
ReduceChars == {"ni", "hao", "juhao", "sp"}
ReduceMsgs ==
    {ASRMsg(TRUE, 0, TRUE, st, TRUE, TRUE, w) :
        st \in {0, 1, 2}, w \in SeqsUpTo(ReduceChars \cup {""}, MaxLen)}

\* the messages a server sends within a session run
SessionMsgs ==
    {\* an interim result, a final result, a final result of one mark
     ASRMsg(TRUE, 0, TRUE, 1, TRUE, TRUE, <<"ni">>),
     ASRMsg(TRUE, 0, TRUE, 2, TRUE, TRUE, <<"ni", "hao">>),
     ASRMsg(TRUE, 0, TRUE, 2, TRUE, TRUE, <<"juhao">>),
     \* an error code, on a message that also carries a result
     ASRMsg(TRUE, 10165, TRUE, 1, TRUE, TRUE, <<"hao">>),
     \* a message without data, and one that is not JSON
     ASRMsg(TRUE, 0, FALSE, 0, FALSE, FALSE, <<>>),
     ASRMsg(FALSE, 0, FALSE, 0, FALSE, FALSE, <<>>)}

(***************************************************************************)
(* XFyunASRStream: the receiver callbacks.                                 *)
(***************************************************************************)
\* (a variant: the code is not looked at)
msg_aborts_never(m) == FALSE

\* on_message aborts: code != 0 (lines 95-101) or an exception (151-155)
msg_aborts(m) == ~m.json_ok \/ m.code # 0

\* the accumulator after on_message(m)
text_after(a, m) ==
    IF msg_aborts(m) THEN a
    ELSE IF m.has_data /\ m.has_result /\ m.has_ws
         THEN reduce(a, m.status, message_text(m.words))
         ELSE a

\* on_message ends the session: abort, or data.status == 2 (lines 146-149)
msg_finishes(m) == msg_aborts(m) \/ (m.has_data /\ m.status = 2)

on_message(m) ==
    /\ call = "asr"
    /\ ws = "open"
    /\ n_msgs' = n_msgs + 1
    /\ result_text' = text_after(result_text, m)
    /\ IF msg_finishes(m)
       THEN /\ is_finished' = TRUE
            /\ ws' = "closing"
            /\ asr_end' = IF asr_end # "none" THEN asr_end
                          ELSE IF ~m.json_ok THEN "exception"
                          ELSE IF msg_aborts(m) THEN "code"
                          ELSE "final"
       ELSE UNCHANGED <<is_finished, ws, asr_end>>
    /\ UNCHANGED <<audio_queue, frame_count, status, sender_pc, caller_pc,
                   elapsed, wait_ret, audio_data, chunk_size, pos, sent,
                   enqueued, sentinel_at, fin_open, sender_exit>>
    /\ UNCHANGED <<call, ttsVars, vadVars, liteVars, recVars,
            wakeVars, signVars, overlapVars>>


\* on_error changes nothing (lines 157-161); run_forever then tears the
\* connection down and calls on_close (line 165).  A failed connect is the
\* same pair of callbacks.
transport_error ==
    /\ call = "asr"
    /\ ws \in {"connecting", "open"}
    /\ ws' = "closed"
    /\ is_finished' = TRUE
    /\ asr_end' = IF asr_end = "none" THEN "close" ELSE asr_end
    /\ UNCHANGED <<result_text, audio_queue, frame_count, status, sender_pc,
                   caller_pc, elapsed, wait_ret, audio_data, chunk_size, pos,
                   sent, enqueued, sentinel_at, fin_open, sender_exit, n_msgs>>
    /\ UNCHANGED nonASR

\* (a variant: the close callback clears the flag)
on_close_clears ==
    /\ call = "asr"
    /\ ws = "closing"
    /\ ws' = "closed"
    /\ is_finished' = FALSE
    /\ UNCHANGED <<result_text, audio_queue, frame_count, status, sender_pc,
                   caller_pc, elapsed, wait_ret, audio_data, chunk_size, pos,
                   sent, enqueued, sentinel_at, fin_open, sender_exit, n_msgs, asr_end>>
    /\ UNCHANGED nonASR

\* run_forever ends after ws.close() and calls on_close
on_close ==
    /\ call = "asr"
    /\ ws = "closing"
    /\ ws' = "closed"
    /\ is_finished' = TRUE
    /\ UNCHANGED <<result_text, audio_queue, frame_count, status, sender_pc,
                   caller_pc, elapsed, wait_ret, audio_data, chunk_size, pos,
                   sent, enqueued, sentinel_at, fin_open, sender_exit, n_msgs, asr_end>>
    /\ UNCHANGED nonASR

\* on_open starts the sender thread (line 199)
on_open ==
    /\ call = "asr"
    /\ ws = "connecting"
    /\ ws' = "open"
    /\ sender_pc' = "check"
    /\ UNCHANGED <<result_text, is_finished, audio_queue, frame_count, status,
                   caller_pc, elapsed, wait_ret, audio_data, chunk_size, pos,
                   sent, enqueued, sentinel_at, fin_open, sender_exit, n_msgs, asr_end>>
    /\ UNCHANGED nonASR

(***************************************************************************)
(* XFyunASRStream: the sender thread send_audio (lines 169-197).           *)
(***************************************************************************)
\* a queue item: a frame, or the sentinel None
Frame(data) == [none |-> FALSE, data |-> data]
Sentinel == [none |-> TRUE, data |-> <<>>]

\* (a variant: every frame is built as a first frame)
send_frame_always_first(audio, frame_status) ==
    [config |-> TRUE, status |-> 0, audio |-> b64encode(audio)]

\* _send_frame: the envelope json.dumps(d) serialises.  config is the
\* "common" and "business" part only the first frame carries.
send_frame(audio, frame_status) ==
    IF frame_status = STATUS_FIRST_FRAME
    THEN [config |-> TRUE, status |-> 0, audio |-> b64encode(audio)]
    ELSE [config |-> FALSE, status |-> frame_status, audio |-> b64encode(audio)]

\* `while not self.is_finished`
sender_check ==
    /\ call = "asr"
    /\ sender_pc = "check"
    /\ IF is_finished
       THEN sender_pc' = "done" /\ sender_exit' = "finished"
       ELSE sender_pc' = "get" /\ UNCHANGED sender_exit
    /\ UNCHANGED <<result_text, is_finished, audio_queue, frame_count, status,
                   ws, caller_pc, elapsed, wait_ret, audio_data, chunk_size,
                   pos, sent, enqueued, sentinel_at, fin_open, n_msgs, asr_end>>
    /\ UNCHANGED nonASR

\* queue.get timed out: `except queue.Empty: continue`
sender_empty ==
    /\ call = "asr"
    /\ sender_pc = "get"
    /\ audio_queue = <<>>
    /\ sender_pc' = "check"
    /\ UNCHANGED <<result_text, is_finished, audio_queue, frame_count, status,
                   ws, caller_pc, elapsed, wait_ret, audio_data, chunk_size,
                   pos, sent, enqueued, sentinel_at, fin_open, sender_exit,
                   n_msgs, asr_end>>
    /\ UNCHANGED nonASR

\* (a variant: the newest item is taken)
queue_get_last(q) == q[Len(q)]

\* the item queue.get returns: the oldest
queue_get(q) == Head(q)

\* the queue after it
queue_rest(q) == Tail(q)

\* the phase of the frame after one of phase st (lines 187-188)
next_status(st) ==
    IF st = STATUS_FIRST_FRAME THEN STATUS_CONTINUE_FRAME ELSE st

\* queue.get returned an item: the sentinel (send `last`, break) or a frame.
\* ws.send raises on a connection that is not open; the handler of line 195
\* then marks the session finished and the thread ends.
sender_get ==
    /\ call = "asr"
    /\ sender_pc = "get"
    /\ audio_queue # <<>>
    /\ audio_queue' = queue_rest(audio_queue)
    /\ LET item == queue_get(audio_queue) IN
       IF ws # "open"
       THEN /\ is_finished' = TRUE
            /\ sender_pc' = "done"
            /\ sender_exit' = "failure"
            /\ asr_end' = IF asr_end = "none" THEN "sender" ELSE asr_end
            /\ UNCHANGED <<sent, status, frame_count>>
       ELSE IF item.none
       THEN /\ sent' = Append(sent, send_frame(<<>>, STATUS_LAST_FRAME))
            /\ sender_pc' = "done"
            /\ sender_exit' = "sentinel"
            /\ UNCHANGED <<is_finished, status, frame_count, asr_end>>
       ELSE /\ sent' = Append(sent, send_frame(item.data, status))
            /\ status' = next_status(status)
            /\ frame_count' = frame_count + 1
            /\ sender_pc' = "check"
            /\ UNCHANGED <<is_finished, sender_exit, asr_end>>
    /\ UNCHANGED <<result_text, ws, caller_pc, elapsed, wait_ret, audio_data,
                   chunk_size, pos, enqueued, sentinel_at, fin_open, n_msgs>>
    /\ UNCHANGED nonASR

(***************************************************************************)
(* The caller: start_recognition, add_audio_frame, finish_recording,       *)
(* wait_result.  The frames are the chunks VoiceAssistant.listen cuts the  *)
(* recorded utterance into (lines 188-191).                                *)
(***************************************************************************)
Min(a, b) == IF a < b THEN a ELSE b

\* audio_data[i:i + chunk_size]
chunk(data, i, size) == SubSeq(data, i + 1, Min(i + size, Len(data)))

start_recognition ==
    /\ call = "asr"
    /\ caller_pc = "init"
    /\ result_text' = <<>>
    /\ is_finished' = FALSE
    /\ audio_queue' = <<>>
    /\ frame_count' = 0
    /\ status' = STATUS_FIRST_FRAME
    /\ ws' = "connecting"
    /\ caller_pc' = "feeding"
    /\ UNCHANGED <<sender_pc, elapsed, wait_ret, audio_data, chunk_size, pos,
                   sent, enqueued, sentinel_at, fin_open, sender_exit, n_msgs, asr_end>>
    /\ UNCHANGED nonASR

\* one turn of the loop of listen: add_audio_frame(audio_data[i:i+chunk_size])
add_audio_frame ==
    /\ call = "asr"
    /\ caller_pc = "feeding"
    /\ pos < Len(audio_data)
    /\ LET frame == chunk(audio_data, pos, chunk_size) IN
       /\ audio_queue' = Append(audio_queue, Frame(frame))
       /\ enqueued' = Append(enqueued, frame)
    /\ pos' = pos + chunk_size
    /\ UNCHANGED <<result_text, is_finished, frame_count, status, ws,
                   sender_pc, caller_pc, elapsed, wait_ret, audio_data, chunk_size, sent,
                   sentinel_at, fin_open, sender_exit, n_msgs, asr_end>>
    /\ UNCHANGED nonASR

finish_recording ==
    /\ call = "asr"
    /\ caller_pc = "feeding"
    /\ sentinel_at = -1
    /\ audio_queue' = Append(audio_queue, Sentinel)
    /\ sentinel_at' = Len(enqueued)
    /\ fin_open' = (ws = "open" /\ ~is_finished)
    /\ UNCHANGED <<result_text, is_finished, frame_count, status, ws,
                   sender_pc, caller_pc, elapsed, wait_ret, audio_data,
                   chunk_size, pos, sent, enqueued, sender_exit, n_msgs, asr_end>>
    /\ UNCHANGED nonASR

\* wait_result is called: start_time = time.time()
wait_call ==
    /\ call = "asr"
    /\ caller_pc = "feeding"
    /\ caller_pc' = "wait_loop"
    /\ elapsed' = 0
    /\ UNCHANGED <<result_text, is_finished, audio_queue, frame_count, status,
                   ws, sender_pc, wait_ret, audio_data, chunk_size, pos, sent,
                   enqueued, sentinel_at, fin_open, sender_exit, n_msgs, asr_end>>
    /\ UNCHANGED nonASR

\* `time.time() - start_time > timeout`, in polling iterations
timed_out(e) == e > TimeoutTicks

\* one turn of `while not self.is_finished` (lines 305-312)
wait_loop ==
    /\ call = "asr"
    /\ caller_pc = "wait_loop"
    /\ IF is_finished
       THEN /\ caller_pc' = "wait_return"
            /\ UNCHANGED <<is_finished, elapsed, asr_end>>
       ELSE IF timed_out(elapsed)
       THEN /\ is_finished' = TRUE
            /\ caller_pc' = "wait_close"
            /\ asr_end' = IF asr_end = "none" THEN "timeout" ELSE asr_end
            /\ UNCHANGED elapsed
       ELSE /\ elapsed' = elapsed + 1
            /\ UNCHANGED <<is_finished, caller_pc, asr_end>>
    /\ UNCHANGED <<result_text, audio_queue, frame_count, status, ws,
                   sender_pc, wait_ret, audio_data, chunk_size, pos, sent,
                   enqueued, sentinel_at, fin_open, sender_exit, n_msgs>>
    /\ UNCHANGED nonASR

\* (a variant: the timeout path does not close the connection)
wait_close_skipped ==
    /\ call = "asr"
    /\ caller_pc = "wait_close"
    /\ caller_pc' = "wait_return"
    /\ UNCHANGED <<result_text, is_finished, audio_queue, frame_count, status,
                   ws, sender_pc, elapsed, wait_ret, audio_data, chunk_size,
                   pos, sent, enqueued, sentinel_at, fin_open, sender_exit,
                   n_msgs, asr_end>>
    /\ UNCHANGED nonASR

\* `if self.ws: self.ws.close()` then break (lines 309-311)
wait_close ==
    /\ call = "asr"
    /\ caller_pc = "wait_close"
    /\ ws' = IF ws \in {"connecting", "open"} THEN "closing" ELSE ws
    /\ caller_pc' = "wait_return"
    /\ UNCHANGED <<result_text, is_finished, audio_queue, frame_count, status,
                   sender_pc, elapsed, wait_ret, audio_data, chunk_size, pos,
                   sent, enqueued, sentinel_at, fin_open, sender_exit, n_msgs, asr_end>>
    /\ UNCHANGED nonASR

\* `return self.result_text` (line 314)
wait_return ==
    /\ call = "asr"
    /\ caller_pc = "wait_return"
    /\ wait_ret' = result_text
    /\ caller_pc' = "returned"
    /\ UNCHANGED <<result_text, is_finished, audio_queue, frame_count, status,
                   ws, sender_pc, elapsed, audio_data, chunk_size, pos, sent,
                   enqueued, sentinel_at, fin_open, sender_exit, n_msgs, asr_end>>
    /\ UNCHANGED nonASR

(***************************************************************************)
(* XFyunTTSStream.on_message (lines 96-171).                               *)
(* An inbound message: header (with its code), and up to three places the  *)
(* audio may be at: payload.audio, the top level, data.  A place is        *)
(* [present, has_audio, audio, status, seq]; audio is base64 text.         *)
(***************************************************************************)
Place(pr, ha, audio, st, seq) ==
    [present |-> pr, has_audio |-> ha, audio |-> audio, status |-> st,
     seq |-> seq]
NoPlace == Place(FALSE, FALSE, <<>>, 0, 0)

TTSMsg(ok, hh, code, payload, top, data) ==
    [json_ok |-> ok, has_header |-> hh, code |-> code, payload |-> payload,
     top |-> top, data |-> data]

\* lines 102-111: the header's code, -1 when the header has none
tts_aborts(m) == m.has_header /\ m.code # 0

\* lines 114-138: audio_data, status, seq of the message
tts_extract(m) ==
    IF m.payload.present
    THEN IF m.payload.has_audio
         THEN [has |-> TRUE, audio |-> m.payload.audio,
               status |-> m.payload.status, seq |-> m.payload.seq]
         ELSE [has |-> FALSE, audio |-> <<>>, status |-> 0, seq |-> 0]
    ELSE IF m.top.present
    THEN [has |-> TRUE, audio |-> m.top.audio, status |-> m.top.status,
          seq |-> m.top.seq]
    ELSE IF m.data.present
    THEN [has |-> m.data.has_audio /\ m.data.audio # <<>>,
          audio |-> m.data.audio, status |-> m.data.status,
          seq |-> m.data.seq]
    ELSE [has |-> FALSE, audio |-> <<>>, status |-> 0, seq |-> 0]

\* lines 141-155: the chunks the message puts on the queue (none or one);
\* a chunk b64decode rejects is dropped by the handler of line 154
tts_chunks(m) ==
    LET x == tts_extract(m) IN
    IF x.has /\ x.audio # <<>> /\ b64valid(x.audio)
    THEN <<b64decode(x.audio)>>
    ELSE <<>>

\* _save_audio_file: b''.join(self.file_data)
RECURSIVE join(_)
join(chunks) ==
    IF chunks = <<>> THEN <<>>
    ELSE IF Len(chunks) = 1 THEN chunks[1]
    ELSE LET half == Len(chunks) \div 2 IN
         join(SubSeq(chunks, 1, half))
            \o join(SubSeq(chunks, half + 1, Len(chunks)))

tts_on_message(m) ==
    /\ call = "tts"
    /\ tts_ws = "open"
    /\ tts_n_msgs' = tts_n_msgs + 1
    /\ IF ~m.json_ok \/ tts_aborts(m)
       THEN \* lines 105-111 and 168-171
            /\ tts_is_finished' = TRUE
            /\ tts_ws' = "closing"
            /\ tts_end' = IF tts_end # "none" THEN tts_end
                          ELSE IF ~m.json_ok THEN "exception" ELSE "code"
            /\ UNCHANGED <<tts_audio_queue, tts_put, file_data, saved>>
       ELSE LET new   == tts_chunks(m)
                kept  == IF save_to_file THEN file_data \o new ELSE file_data
            IN  /\ tts_audio_queue' = tts_audio_queue \o new
                /\ tts_put' = tts_put \o
                       [i \in 1..Len(new) |->
                          [seq |-> tts_extract(m).seq, audio |-> new[i]]]
                /\ file_data' = kept
                /\ IF tts_extract(m).status = 2
                   THEN /\ tts_is_finished' = TRUE
                        /\ tts_ws' = "closing"
                        /\ tts_end' = IF tts_end = "none" THEN "final"
                                      ELSE tts_end
                        /\ saved' = IF save_to_file /\ kept # <<>>
                                    THEN Append(saved, join(kept))
                                    ELSE saved
                   ELSE UNCHANGED <<tts_is_finished, tts_ws, tts_end, saved>>
    /\ UNCHANGED <<save_to_file, tts_pc, play_pc, tts_ret, played>>
    /\ UNCHANGED nonTTS

\* on_error marks the call finished (line 194); run_forever then ends, calls
\* on_close (line 199) and returns to synthesize_and_play
tts_transport_error ==
    /\ call = "tts"
    /\ tts_ws \in {"connecting", "open"}
    /\ tts_ws' = "closed"
    /\ tts_is_finished' = TRUE
    /\ tts_end' = IF tts_end = "none" THEN "close" ELSE tts_end
    /\ tts_pc' = "wait"
    /\ UNCHANGED <<tts_audio_queue, save_to_file, file_data, play_pc, tts_ret,
                   played, tts_put, saved, tts_n_msgs>>
    /\ UNCHANGED nonTTS

\* run_forever ends after ws.close(): on_close, then back in the caller
tts_on_close ==
    /\ call = "tts"
    /\ tts_ws = "closing"
    /\ tts_ws' = "closed"
    /\ tts_is_finished' = TRUE
    /\ tts_pc' = "wait"
    /\ UNCHANGED <<tts_audio_queue, save_to_file, file_data, play_pc, tts_ret,
                   played, tts_put, saved, tts_n_msgs, tts_end>>
    /\ UNCHANGED nonTTS

\* the connection opens; on_open sends the one request frame
tts_on_open ==
    /\ call = "tts"
    /\ tts_ws = "connecting"
    /\ tts_ws' = "open"
    /\ UNCHANGED <<tts_is_finished, tts_audio_queue, save_to_file, file_data,
                   tts_pc, play_pc, tts_ret, played, tts_put, saved,
                   tts_n_msgs, tts_end>>
    /\ UNCHANGED nonTTS

(***************************************************************************)
(* XFyunTTSStream.synthesize_and_play (lines 320-369).                     *)
(***************************************************************************)
\* lines 320-356: reset, start the playback thread, connect, run_forever
synthesize_and_play ==
    /\ call = "tts"
    /\ tts_pc = "init"
    /\ tts_is_finished' = FALSE
    /\ tts_audio_queue' = <<>>
    /\ file_data' = <<>>
    /\ save_to_file' \in BOOLEAN
    /\ play_pc' = "open"
    /\ tts_ws' = "connecting"
    /\ tts_pc' = "run"
    /\ UNCHANGED <<tts_ret, played, tts_put, saved, tts_n_msgs, tts_end>>
    /\ UNCHANGED nonTTS

\* the value of line 369
tts_result(end) == "True"

\* lines 360-369: the loop ends once the call is finished and the queue is
\* empty; then `return True`
tts_wait ==
    /\ call = "tts"
    /\ tts_pc = "wait"
    /\ ~(~tts_is_finished \/ tts_audio_queue # <<>>)
    /\ tts_pc' = "returned"
    /\ tts_ret' = tts_result(tts_end)
    /\ UNCHANGED <<tts_is_finished, tts_audio_queue, save_to_file, file_data,
                   tts_ws, play_pc, played, tts_put, saved, tts_n_msgs,
                   tts_end>>
    /\ UNCHANGED nonTTS

(***************************************************************************)
(* XFyunTTSStream.play_stream (lines 250-300).                             *)
(***************************************************************************)
\* p.open(...): the output stream opens, or raises and the thread ends
play_open ==
    /\ call = "tts"
    /\ play_pc = "open"
    /\ play_pc' \in {"loop", "failed"}
    /\ UNCHANGED <<tts_is_finished, tts_audio_queue, save_to_file, file_data,
                   tts_ws, tts_pc, tts_ret, played, tts_put, saved,
                   tts_n_msgs, tts_end>>
    /\ UNCHANGED nonTTS

\* `while not self.is_finished or not self.audio_queue.empty()`
play_check ==
    /\ call = "tts"
    /\ play_pc = "loop"
    /\ play_pc' = IF ~tts_is_finished \/ tts_audio_queue # <<>>
                  THEN "get" ELSE "done"
    /\ UNCHANGED <<tts_is_finished, tts_audio_queue, save_to_file, file_data,
                   tts_ws, tts_pc, tts_ret, played, tts_put, saved,
                   tts_n_msgs, tts_end>>
    /\ UNCHANGED nonTTS

\* (a variant: the newest chunk is taken)
tts_queue_get_last(q) == q[Len(q)]

\* the chunk audio_queue.get returns (line 276): the oldest
tts_queue_get(q) == Head(q)

\* queue.get returned a chunk; stream.write plays it, or raises and the
\* thread ends (line 297)
play_get ==
    /\ call = "tts"
    /\ play_pc = "get"
    /\ tts_audio_queue # <<>>
    /\ tts_audio_queue' = Tail(tts_audio_queue)
    /\ \/ /\ played' = Append(played, tts_queue_get(tts_audio_queue))
          /\ play_pc' = "loop"
       \/ /\ played' = played
          /\ play_pc' = "failed"
    /\ UNCHANGED <<tts_is_finished, save_to_file, file_data, tts_ws, tts_pc,
                   tts_ret, tts_put, saved, tts_n_msgs, tts_end>>
    /\ UNCHANGED nonTTS

\* queue.get found the queue empty for its whole timeout and raises
\* queue.Empty (line 276)
play_empty ==
    /\ call = "tts"
    /\ play_pc = "get"
    /\ tts_audio_queue = <<>>
    /\ play_pc' = "empty"
    /\ UNCHANGED <<tts_is_finished, tts_audio_queue, save_to_file, file_data,
                   tts_ws, tts_pc, tts_ret, played, tts_put, saved,
                   tts_n_msgs, tts_end>>
    /\ UNCHANGED nonTTS

\* the handler of queue.Empty (lines 285-289): `if self.is_finished: break`,
\* else `continue`
play_timeout ==
    /\ call = "tts"
    /\ play_pc = "empty"
    /\ play_pc' = IF tts_is_finished THEN "done" ELSE "loop"
    /\ UNCHANGED <<tts_is_finished, tts_audio_queue, save_to_file, file_data,
                   tts_ws, tts_pc, tts_ret, played, tts_put, saved,
                   tts_n_msgs, tts_end>>
    /\ UNCHANGED nonTTS

\* the inbound messages of a synthesis run: two chunks of audio
Chunk1 == <<1>>
Chunk2 == <<2, 3>>
TTSMsgs ==
    {\* a chunk at payload.audio, more to come / final
     TTSMsg(TRUE, TRUE, 0, Place(TRUE, TRUE, b64encode(Chunk1), 1, 0), NoPlace, NoPlace),
     TTSMsg(TRUE, TRUE, 0, Place(TRUE, TRUE, b64encode(Chunk2), 2, 1), NoPlace, NoPlace),
     \* the final status without audio: an empty audio field, and none
     TTSMsg(TRUE, TRUE, 0, Place(TRUE, TRUE, <<>>, 2, 1), NoPlace, NoPlace),
     TTSMsg(TRUE, TRUE, 0, Place(TRUE, FALSE, <<>>, 2, 1), NoPlace, NoPlace),
     \* a chunk at the top level, and one in data, without a header
     TTSMsg(TRUE, FALSE, 0, NoPlace, Place(TRUE, TRUE, b64encode(Chunk2), 1, 1), NoPlace),
     TTSMsg(TRUE, FALSE, 0, NoPlace, NoPlace, Place(TRUE, TRUE, b64encode(Chunk1), 2, 1)),
     \* a chunk b64decode rejects
     TTSMsg(TRUE, TRUE, 0, Place(TRUE, TRUE, <<16>>, 1, 0), NoPlace, NoPlace),
     \* an error code, alone and on a message that also carries a chunk
     TTSMsg(TRUE, TRUE, 10163, NoPlace, NoPlace, NoPlace),
     TTSMsg(TRUE, TRUE, 10163, Place(TRUE, TRUE, b64encode(Chunk1), 2, 0), NoPlace, NoPlace),
     \* not JSON
     TTSMsg(FALSE, FALSE, 0, NoPlace, NoPlace, NoPlace)}

(***************************************************************************)
(* VADDetector (vad_detector.py): the probabilistic strategy.              *)
(* A probability is given in tenths, as is the threshold.                  *)
(***************************************************************************)
\* what the detectors leave alone
nonVAD == <<call, probeVars, asrVars, ttsVars, liteVars, recVars,
            wakeVars, signVars, overlapVars>>
nonLite == <<call, probeVars, asrVars, ttsVars, vadVars, recVars,
            wakeVars, signVars, overlapVars>>

VADConfig(rate, threshold, speech_ms, silence_ms, window) ==
    [sample_rate |-> rate, threshold |-> threshold,
     min_speech_duration_ms |-> speech_ms,
     min_silence_duration_ms |-> silence_ms,
     window_size_samples |-> window]

\* the defaults of __init__ (lines 16-20)
VADDefaults == VADConfig(16000, 5, 250, 500, 512)

\* the detector of record_with_vad at frames of 512 and of 480 samples
\* (32 ms and 30 ms), and one with short durations
VADConfigs ==
    {VADConfig(16000, 5, 250, 800, 512),
     VADConfig(16000, 5, 250, 800, 480),
     VADConfig(16000, 5, 64, 96, 512)}

\* reset, lines 59-61: int(duration_ms / ms_per_frame), with
\* ms_per_frame = (window_size_samples / sample_rate) * 1000
frames_in(duration_ms, window, rate) ==
    (duration_ms * rate) \div (window * 1000)

NoVadRet == [is_speech |-> FALSE, should_stop |-> FALSE]

\* the fields after __init__ / reset (lines 37-61)
VADConstructed(cfg) ==
    /\ vad_cfg = cfg
    /\ vad_is_speaking = FALSE
    /\ vad_speech_frames = 0
    /\ vad_silence_frames = 0
    /\ vad_total_frames = 0
    /\ min_speech_frames = frames_in(cfg.min_speech_duration_ms,
                                     cfg.window_size_samples, cfg.sample_rate)
    /\ min_silence_frames = frames_in(cfg.min_silence_duration_ms,
                                      cfg.window_size_samples, cfg.sample_rate)
    /\ vad_ret = NoVadRet
    /\ vad_hist = <<>>

vad_reset ==
    /\ vad_is_speaking' = FALSE
    /\ vad_speech_frames' = 0
    /\ vad_silence_frames' = 0
    /\ vad_total_frames' = 0
    /\ min_speech_frames' = frames_in(vad_cfg.min_speech_duration_ms,
                                      vad_cfg.window_size_samples,
                                      vad_cfg.sample_rate)
    /\ min_silence_frames' = frames_in(vad_cfg.min_silence_duration_ms,
                                       vad_cfg.window_size_samples,
                                       vad_cfg.sample_rate)
    /\ vad_ret' = NoVadRet
    /\ vad_hist' = <<>>
    /\ UNCHANGED vad_cfg

\* (a variant: a speech frame leaves the silence count as it is)
vad_silence_after_kept(n, is_speech) == IF is_speech THEN n ELSE n + 1

\* silence_frames after a frame (lines 104 and 110)
vad_silence_after(n, is_speech) == IF is_speech THEN 0 ELSE n + 1

\* speech_frames after a frame (lines 103 and 111-112)
vad_speech_after(n, is_speech, speaking) ==
    IF is_speech THEN n + 1
    ELSE IF speaking THEN 0
    ELSE n

\* process_frame, lines 94-120; speech_prob is what the model gave the frame
vad_process_frame(speech_prob) ==
    /\ LET is_speech == speech_prob > vad_cfg.threshold
           sp        == vad_speech_after(vad_speech_frames, is_speech,
                                         vad_is_speaking)
           sil       == vad_silence_after(vad_silence_frames, is_speech)
           speaking  == vad_is_speaking
                        \/ (is_speech /\ sp >= min_speech_frames)
       IN  /\ vad_total_frames' = vad_total_frames + 1
           /\ vad_speech_frames' = sp
           /\ vad_silence_frames' = sil
           /\ vad_is_speaking' = speaking
           /\ vad_ret' = [is_speech |-> is_speech,
                          should_stop |-> speaking /\ sil >= min_silence_frames]
           /\ vad_hist' = Append(vad_hist, is_speech)
    /\ UNCHANGED <<vad_cfg, min_speech_frames, min_silence_frames>>

(***************************************************************************)
(* VADDetectorLite (vad_detector_lite.py): the classifier strategy.        *)
(* Audio is written as runs: a frame is a sequence of runs                 *)
(* [n, bytes, zeros], the first `bytes` bytes of the n-th captured frame   *)
(* followed by `zeros` zero bytes.                                         *)
(***************************************************************************)
LiteConfig(rate, frame_ms, padding_ms, silence_ms) ==
    [sample_rate |-> rate, frame_duration_ms |-> frame_ms,
     padding_duration_ms |-> padding_ms,
     min_silence_duration_ms |-> silence_ms]

\* the defaults of __init__ (lines 16-20)
LiteDefaults == LiteConfig(16000, 30, 300, 1500)

\* the detector of record_with_vad_lite, one with a ring of two frames and
\* one whose padding is shorter than a frame
LiteConfigs ==
    {LiteConfig(16000, 30, 300, 800),
     LiteConfig(16000, 30, 60, 60),
     LiteConfig(16000, 30, 20, 60)}

\* line 55: int(sample_rate * frame_duration_ms / 1000 * 2)
frame_size_of(cfg) == (cfg.sample_rate * cfg.frame_duration_ms * 2) \div 1000
\* line 58: int(padding_duration_ms / frame_duration_ms)
padding_frames_of(cfg) == cfg.padding_duration_ms \div cfg.frame_duration_ms
\* line 59: int(min_silence_duration_ms / frame_duration_ms)
silence_frames_of(cfg) == cfg.min_silence_duration_ms \div cfg.frame_duration_ms

\* the n-th captured frame, of len bytes
Captured(n, len) == <<[n |-> n, bytes |-> len, zeros |-> 0]>>

NoAudio == [none |-> TRUE, data |-> <<>>]
NoLiteRet == [is_speech |-> FALSE, should_stop |-> FALSE,
              buffered_audio |-> NoAudio]

\* the fields after __init__ / reset (lines 44-76)
LiteConstructed(cfg) ==
    /\ lite_cfg = cfg
    /\ frame_size_bytes = frame_size_of(cfg)
    /\ padding_frames = padding_frames_of(cfg)
    /\ lite_silence_frames = silence_frames_of(cfg)
    /\ lite_is_speaking = FALSE
    /\ triggered = FALSE
    /\ voiced_frames = <<>>
    /\ ring_buffer = <<>>
    /\ silence_counter = 0
    /\ lite_total_frames = 0
    /\ lite_ret = NoLiteRet
    /\ lite_hist = <<>>
    /\ trigger_at = 0

lite_reset ==
    /\ lite_is_speaking' = FALSE
    /\ triggered' = FALSE
    /\ voiced_frames' = <<>>
    /\ ring_buffer' = <<>>
    /\ silence_counter' = 0
    /\ lite_total_frames' = 0
    /\ lite_ret' = NoLiteRet
    /\ lite_hist' = <<>>
    /\ trigger_at' = 0
    /\ UNCHANGED <<lite_cfg, frame_size_bytes, padding_frames,
                   lite_silence_frames>>

\* lines 89-94: a frame of another size is padded with zero bytes or cut
lite_adjust(frame, size) ==
    LET r == frame[1] IN
    IF r.bytes < size THEN <<[r EXCEPT !.zeros = size - r.bytes]>>
    ELSE IF r.bytes > size THEN <<[r EXCEPT !.bytes = size]>>
    ELSE frame

\* (a variant: the ring keeps every item)
ring_append_unbounded(ring, item, maxlen) == Append(ring, item)

\* deque(maxlen).append: a full ring drops its oldest item; a ring of
\* maxlen 0 keeps nothing
ring_append(ring, item, maxlen) ==
    IF maxlen = 0 THEN ring
    ELSE IF Len(ring) >= maxlen THEN Append(Tail(ring), item)
    ELSE Append(ring, item)

\* lines 106 and 120: the items of the ring whose is_speech is b
ring_count(ring, b) == Cardinality({i \in 1..Len(ring) : ring[i].speech = b})

\* (a variant: half of the ring is enough)
lite_triggers_at_half(num_voiced, maxlen) == 2 * num_voiced >= maxlen

\* line 109: num_voiced > 0.5 * self.ring_buffer.maxlen
lite_triggers(num_voiced, maxlen) == 2 * num_voiced > maxlen

\* (a variant: nine tenths of the ring is enough)
lite_silent_at_nine_tenths(num_unvoiced, maxlen) ==
    10 * num_unvoiced >= 9 * maxlen

\* line 123: num_unvoiced > 0.9 * self.ring_buffer.maxlen
lite_silent(num_unvoiced, maxlen) == 10 * num_unvoiced > 9 * maxlen

\* the frames of the items of a ring, in order
ring_frames(ring) == [i \in 1..Len(ring) |-> ring[i].frame]

\* process_frame, lines 89-135; is_speech is what the classifier gave
lite_process_frame(audio_frame, is_speech) ==
    /\ lite_total_frames' = lite_total_frames + 1
    /\ lite_hist' = Append(lite_hist, [frame |-> audio_frame,
                                       speech |-> is_speech])
    /\ LET f    == lite_adjust(audio_frame, frame_size_bytes)
           ring == ring_append(ring_buffer, [frame |-> f, speech |-> is_speech],
                               padding_frames)
       IN  IF ~triggered
           THEN /\ IF lite_triggers(ring_count(ring, TRUE), padding_frames)
                   THEN /\ triggered' = TRUE
                        /\ lite_is_speaking' = TRUE
                        /\ voiced_frames' = voiced_frames \o ring_frames(ring)
                        /\ ring_buffer' = <<>>
                        /\ trigger_at' = Len(lite_hist) + 1
                   ELSE /\ ring_buffer' = ring
                        /\ UNCHANGED <<triggered, lite_is_speaking,
                                       voiced_frames, trigger_at>>
                /\ lite_ret' = [is_speech |-> is_speech, should_stop |-> FALSE,
                                buffered_audio |-> NoAudio]
                /\ UNCHANGED silence_counter
           ELSE LET voiced == Append(voiced_frames, f)
                    count  == IF lite_silent(ring_count(ring, FALSE),
                                             padding_frames)
                              THEN silence_counter + 1 ELSE 0
                    stop   == count >= lite_silence_frames
                IN  /\ voiced_frames' = voiced
                    /\ ring_buffer' = ring
                    /\ silence_counter' = count
                    /\ lite_is_speaking' = IF stop THEN FALSE
                                           ELSE lite_is_speaking
                    /\ lite_ret' = [is_speech |-> is_speech,
                                    should_stop |-> stop,
                                    buffered_audio |->
                                        IF stop
                                        THEN [none |-> FALSE,
                                              data |-> join(voiced)]
                                        ELSE NoAudio]
                    /\ UNCHANGED <<triggered, trigger_at>>
    /\ UNCHANGED <<lite_cfg, frame_size_bytes, padding_frames,
                   lite_silence_frames>>

(***************************************************************************)
(* AudioRecorder.record_with_vad and record_with_vad_lite (audio_utils.py). *)
(* One call builds a detector, opens the capture stream and runs the loop  *)
(* of lines 277-309 / 394-427: read a frame, give it to the detector, stop *)
(* when the detector says so or when max_duration has passed.  stream.read *)
(* blocks until a frame has been captured, so the clock of a call is its   *)
(* frame count and max_duration is counted in frame durations.             *)
(***************************************************************************)
nonRec == <<call, probeVars, asrVars, ttsVars,
            wakeVars, signVars, overlapVars>>

\* (None, 0), lines 323 and 437
NoRec == [none |-> TRUE, data |-> <<>>, duration |-> [num |-> 0, den |-> 1]]

\* the fields of AudioRecorder that the two methods read: __init__'s
\* defaults (line 17)
RecorderSampleRate == 16000
RecorderChunk == 1024

\* the detector record_with_vad builds (lines 247-253): the defaults of its
\* parameters, and a call with short durations
RecVADConfigs ==
    {VADConfig(RecorderSampleRate, 5, 250, 800, RecorderChunk),
     VADConfig(RecorderSampleRate, 5, 128, 192, RecorderChunk)}

\* the detector record_with_vad_lite builds (lines 358-364): frames of 30 ms
\* and 300 ms of padding, min_silence_duration_ms as listen passes it and a
\* short one
RecLiteConfigs ==
    {LiteConfig(RecorderSampleRate, 30, 300, 800),
     LiteConfig(RecorderSampleRate, 30, 300, 60)}

\* no call made yet
RecIdle ==
    /\ rec_pc = "idle"
    /\ rec_max = 0
    /\ rec_frames = <<>>
    /\ rec_frame_count = 0
    /\ speech_detected = FALSE
    /\ rec_end = ""
    /\ rec_ret = NoRec
    /\ rec_trigger_at = 0

\* len() of audio written as runs
RECURSIVE audio_len(_)
audio_len(data) ==
    IF data = <<>> THEN 0
    ELSE Head(data).bytes + Head(data).zeros + audio_len(Tail(data))

\* lines 247-274 / 358-391: the detector is built and the locals are set
rec_start(max_duration) ==
    /\ call \in {"rec", "rec_lite"}
    /\ rec_pc \in {"idle", "returned"}
    /\ IF call = "rec"
       THEN vad_reset /\ UNCHANGED liteVars
       ELSE lite_reset /\ UNCHANGED vadVars
    /\ rec_pc' = "loop"
    /\ rec_max' = max_duration
    /\ rec_frames' = <<>>
    /\ rec_frame_count' = 0
    /\ speech_detected' = FALSE
    /\ rec_end' = ""
    /\ rec_ret' = NoRec
    /\ rec_trigger_at' = 0
    /\ UNCHANGED nonRec

\* (a variant: the deadline is never looked at)
rec_late_never(count, max_duration) == FALSE

\* lines 307 and 422: time.time() - start_time > max_duration
rec_late(count, max_duration) == count > max_duration

\* record_with_vad lines 286-288: speech_detected is set by the first frame
\* whose is_speech is true
rec_detected(detected, is_speech, speaking) == detected \/ is_speech

\* record_with_vad lines 317-333: what is returned for the frames kept
rec_vad_result(frames) ==
    IF frames = <<>> THEN NoRec
    ELSE [none |-> FALSE, data |-> join(frames),
          duration |-> [num |-> Len(frames) * RecorderChunk,
                        den |-> RecorderSampleRate]]

\* record_with_vad_lite lines 435-451
rec_lite_result(frames) ==
    IF frames = <<>> THEN NoRec
    ELSE LET audio == IF Len(frames) = 1 THEN frames[1] ELSE join(frames)
         IN  [none |-> FALSE, data |-> audio,
              duration |-> [num |-> audio_len(audio),
                            den |-> RecorderSampleRate * 2]]

\* one turn of the loop of record_with_vad (lines 277-309) and, when the
\* loop ends, the return (lines 313-333)
rec_vad_frame(speech_prob) ==
    /\ call = "rec"
    /\ rec_pc = "loop"
    /\ vad_process_frame(speech_prob)
    /\ LET count    == rec_frame_count + 1
           data     == Captured(count, 2 * RecorderChunk)
           detected == rec_detected(speech_detected, vad_ret'.is_speech,
                                    vad_is_speaking')
           frames   == IF detected THEN Append(rec_frames, data)
                       ELSE rec_frames
           end      == IF vad_ret'.should_stop THEN "stop"
                       ELSE IF rec_late(count, rec_max) THEN "deadline"
                       ELSE ""
       IN  /\ rec_frame_count' = count
           /\ speech_detected' = detected
           /\ rec_frames' = frames
           /\ rec_end' = end
           /\ rec_trigger_at' = IF rec_trigger_at = 0 /\ vad_is_speaking'
                                THEN count ELSE rec_trigger_at
           /\ IF end = ""
              THEN UNCHANGED <<rec_pc, rec_ret>>
              ELSE /\ rec_pc' = "returned"
                   /\ rec_ret' = rec_vad_result(frames)
    /\ UNCHANGED <<rec_max, liteVars>>
    /\ UNCHANGED nonRec

\* one turn of the loop of record_with_vad_lite (lines 394-427) and, when
\* the loop ends, the return (lines 431-451)
rec_lite_frame(is_speech) ==
    /\ call = "rec_lite"
    /\ rec_pc = "loop"
    /\ lite_process_frame(Captured(rec_frame_count + 1,
                                   2 * (frame_size_bytes \div 2)),
                          is_speech)
    /\ LET count    == rec_frame_count + 1
           buffered == lite_ret'.buffered_audio
           end      == IF lite_ret'.should_stop THEN "stop"
                       ELSE IF rec_late(count, rec_max) THEN "deadline"
                       ELSE ""
           frames   == IF end = "stop"
                       THEN IF ~buffered.none /\ audio_len(buffered.data) > 0
                            THEN <<buffered.data>> ELSE rec_frames
                       ELSE IF end = "deadline" /\ voiced_frames' # <<>>
                            THEN <<join(voiced_frames')>>
                       ELSE rec_frames
       IN  /\ rec_frame_count' = count
           /\ speech_detected' = (speech_detected \/ lite_is_speaking')
           /\ rec_frames' = frames
           /\ rec_end' = end
           /\ rec_trigger_at' = IF rec_trigger_at = 0 /\ lite_is_speaking'
                                THEN count ELSE rec_trigger_at
           /\ IF end = ""
              THEN UNCHANGED <<rec_pc, rec_ret>>
              ELSE /\ rec_pc' = "returned"
                   /\ rec_ret' = rec_lite_result(frames)
    /\ UNCHANGED <<rec_max, vadVars>>
    /\ UNCHANGED nonRec

\* lines 311-333 / 429-451: Ctrl-C ends the loop; what was kept in frames
\* is returned
rec_interrupt ==
    /\ call \in {"rec", "rec_lite"}
    /\ rec_pc = "loop"
    /\ rec_pc' = "returned"
    /\ rec_end' = "interrupt"
    /\ rec_ret' = IF call = "rec" THEN rec_vad_result(rec_frames)
                  ELSE rec_lite_result(rec_frames)
    /\ UNCHANGED <<rec_max, rec_frames, rec_frame_count, speech_detected,
                   rec_trigger_at, vadVars, liteVars>>
    /\ UNCHANGED nonRec

(***************************************************************************)
(* PorcupineDetector and PorcupineCustomDetector                           *)
(* (wake_word_detector_porcupine.py, wake_word_detector_porcupine_custom.py):*)
(* the two classes differ in initialize only.  Audio is written as in the  *)
(* recorder: [n, samples, zeros] is the first `samples` samples of the     *)
(* n-th frame followed by `zeros` zero samples.                            *)
(***************************************************************************)
nonWake == <<probeVars, asrVars, ttsVars, vadVars, liteVars, recVars,
            signVars, overlapVars>>

\* self.frame_length (line 31 / line 44)
frame_length == 512

DetectRet(d, k) == [detected |-> d, keyword_index |-> k]
\* `return False, -1`
NotDetected == DetectRet(FALSE, -1)

Samples(n, s, z) == [none |-> FALSE, n |-> n, samples |-> s, zeros |-> z]
NoSamples == [none |-> TRUE, n |-> 0, samples |-> 0, zeros |-> 0]

\* porcupine.process: not called, raised, or returned an index
EngineOut(c, r, k) == [called |-> c, raised |-> r, index |-> k]
NoEngine == EngineOut(FALSE, FALSE, -1)

\* an audio_frame: bytes (len in bytes) or an array (len in samples)
AudioFrame(kind, n, len) == [kind |-> kind, n |-> n, len |-> len]
NoFrame == AudioFrame("none", 0, 0)

\* the fields after __init__ (lines 26-31; base class lines 19-20)
DetectorConstructed ==
    /\ is_active = FALSE
    /\ porcupine = "None"
    /\ detect_ret = NotDetected
    /\ engine_in = NoSamples
    /\ engine_out = NoEngine
    /\ detect_arg = NoFrame
    /\ detect_calls = 0

\* initialize (lines 33-61; custom: lines 46-96): pvporcupine.create
\* succeeds, or raises, or (custom) a model file is missing
initialize(outcome) ==
    /\ CASE outcome = "created" -> porcupine' = "engine" /\ is_active' = TRUE
         [] outcome = "raised"  -> is_active' = FALSE /\ UNCHANGED porcupine
         [] OTHER               -> UNCHANGED <<is_active, porcupine>>
    /\ UNCHANGED <<detect_ret, engine_in, engine_out, detect_arg,
                   detect_calls>>

\* cleanup (lines 101-107)
cleanup ==
    /\ IF porcupine # "None"
       THEN porcupine' = "None" /\ is_active' = FALSE
       ELSE UNCHANGED <<is_active, porcupine>>
    /\ UNCHANGED <<detect_ret, engine_in, engine_out, detect_arg,
                   detect_calls>>

\* np.frombuffer(audio_frame, dtype=np.int16) raises on a byte count that
\* is not a multiple of the sample size (line 76)
frombuffer_raises(frame) == frame.kind = "bytes" /\ frame.len % 2 = 1

\* lines 75-78: the samples of the frame
samples_of(frame) ==
    IF frame.kind = "bytes" THEN frame.len \div 2 ELSE frame.len

\* (a variant: the frame is passed on as it came)
fit_frame_as_is(n, s) == Samples(n, s, 0)

\* lines 81-86: np.pad(audio_np, (0, frame_length - len)) or
\* audio_np[:frame_length]
fit_frame(n, s) ==
    IF s < frame_length THEN Samples(n, s, frame_length - s)
    ELSE IF s > frame_length THEN Samples(n, frame_length, 0)
    ELSE Samples(n, s, 0)

\* (a variant: the engine's index is returned whatever it is)
detect_result_raw(out) == DetectRet(~out.raised, out.index)

\* lines 89-99: what detect returns for what porcupine.process did
detect_result(out) ==
    IF out.raised THEN NotDetected
    ELSE IF out.index >= 0 THEN DetectRet(TRUE, out.index)
    ELSE NotDetected

\* detect (lines 63-99; custom: lines 98-134); result is what
\* porcupine.process does if it is called
detect(audio_frame, result) ==
    /\ detect_arg' = audio_frame
    /\ IF ~is_active \/ porcupine = "None"
       THEN /\ detect_ret' = NotDetected
            /\ engine_in' = NoSamples
            /\ engine_out' = NoEngine
       ELSE IF frombuffer_raises(audio_frame)
       THEN /\ detect_ret' = NotDetected
            /\ engine_in' = NoSamples
            /\ engine_out' = NoEngine
       ELSE /\ engine_in' = fit_frame(audio_frame.n, samples_of(audio_frame))
            /\ engine_out' = EngineOut(TRUE, result.raised, result.index)
            /\ detect_ret' = detect_result(result)
    /\ UNCHANGED <<is_active, porcupine>>

\* what porcupine.process may do: no keyword, one of the keywords, an error
EngineResults ==
    {EngineOut(TRUE, FALSE, k) : k \in -1..(MaxKeywords - 1)}
    \cup {EngineOut(TRUE, TRUE, -1)}

(***************************************************************************)
(* VoiceAssistant.run_with_wake_word (voice_assistant.py lines 352-509).   *)
(***************************************************************************)
WakeConfig(detector, response, return_to_wake) ==
    [detector |-> detector, response_audio |-> response,
     return_to_wake_mode |-> return_to_wake]

\* before run_with_wake_word is called
WakeIdle ==
    /\ DetectorConstructed
    /\ wake_pc = "init"
    /\ wake_cfg = WakeConfig(FALSE, FALSE, TRUE)
    /\ wake_stream = "none"
    /\ capture = FALSE
    /\ playback = "none"
    /\ wake_count = 0

detectorVars == <<is_active, porcupine, detect_ret, engine_in, engine_out,
                  detect_arg, detect_calls>>

\* lines 354-391: no detector: return; else the capture stream is opened
\* (audio.open may raise: line 493, then the finally block)
wake_open ==
    /\ call = "wake"
    /\ wake_pc = "init"
    /\ IF ~wake_cfg.detector
       THEN wake_pc' = "ended" /\ UNCHANGED wake_stream
       ELSE \/ wake_stream' = "active" /\ wake_pc' = "listen"
            \/ wake_pc' = "cleanup" /\ UNCHANGED wake_stream
    /\ UNCHANGED <<wake_cfg, capture, playback, wake_count, detectorVars>>
    /\ UNCHANGED <<call, nonWake>>

\* lines 393-405: a frame of frame_length samples is read and scored
wake_frame(result) ==
    /\ call = "wake"
    /\ wake_pc = "listen"
    /\ detect(AudioFrame("bytes", 1, 2 * frame_length), result)
    /\ IF detect_ret'.detected /\ detect_ret'.keyword_index >= 0
       THEN /\ wake_count < MaxWakes
            /\ wake_count' = wake_count + 1
            /\ wake_pc' = "respond"
       ELSE UNCHANGED <<wake_count, wake_pc>>
    /\ UNCHANGED <<wake_cfg, wake_stream, capture, playback, detect_calls>>
    /\ UNCHANGED <<call, nonWake>>

\* lines 408-417: the wake response is played if the file exists
wake_respond ==
    /\ call = "wake"
    /\ wake_pc = "respond"
    /\ IF wake_cfg.response_audio
       THEN playback' = "response" /\ wake_pc' = "responding"
       ELSE wake_pc' = "stop" /\ UNCHANGED playback
    /\ UNCHANGED <<wake_cfg, wake_stream, capture, wake_count, detectorVars>>
    /\ UNCHANGED <<call, nonWake>>

\* self.player.play(response_audio, wait=True) returns (line 412)
wake_response_end ==
    /\ call = "wake"
    /\ wake_pc = "responding"
    /\ playback' = "none"
    /\ wake_pc' = "stop"
    /\ UNCHANGED <<wake_cfg, wake_stream, capture, wake_count, detectorVars>>
    /\ UNCHANGED <<call, nonWake>>

\* stream.stop_stream() (line 420)
wake_stop_stream ==
    /\ call = "wake"
    /\ wake_pc = "stop"
    /\ wake_stream' = "stopped"
    /\ wake_pc' = "record"
    /\ UNCHANGED <<wake_cfg, capture, playback, wake_count, detectorVars>>
    /\ UNCHANGED <<call, nonWake>>

\* record_with_vad_lite is called and opens its capture stream (line 425)
wake_record ==
    /\ call = "wake"
    /\ wake_pc = "record"
    /\ capture' = TRUE
    /\ wake_pc' = "recording"
    /\ UNCHANGED <<wake_cfg, wake_stream, playback, wake_count, detectorVars>>
    /\ UNCHANGED <<call, nonWake>>

\* record_with_vad_lite returns audio, or (None, 0), or raises (lines
\* 431-436, 483-488)
wake_record_end(outcome) ==
    /\ call = "wake"
    /\ wake_pc = "recording"
    /\ capture' = FALSE
    /\ IF outcome = "audio"
       THEN wake_pc' = "recognize" /\ UNCHANGED wake_stream
       ELSE wake_stream' = "active" /\ wake_pc' = "listen"
    /\ UNCHANGED <<wake_cfg, playback, wake_count, detectorVars>>
    /\ UNCHANGED <<call, nonWake>>

\* (a variant: the paths without a text go back without start_stream)
wake_recognize_stays_stopped(outcome) ==
    /\ call = "wake"
    /\ wake_pc = "recognize"
    /\ IF outcome = "text"
       THEN wake_pc' = "speak" /\ UNCHANGED wake_stream
       ELSE wake_pc' = "listen" /\ UNCHANGED wake_stream
    /\ UNCHANGED <<wake_cfg, capture, playback, wake_count, detectorVars>>
    /\ UNCHANGED <<call, nonWake>>

\* lines 440-464: recognition gives a text, or nothing, or raises
wake_recognize(outcome) ==
    /\ call = "wake"
    /\ wake_pc = "recognize"
    /\ IF outcome = "text"
       THEN wake_pc' = "speak" /\ UNCHANGED wake_stream
       ELSE wake_stream' = "active" /\ wake_pc' = "listen"
    /\ UNCHANGED <<wake_cfg, capture, playback, wake_count, detectorVars>>
    /\ UNCHANGED <<call, nonWake>>

\* self.speak(reply) (line 473): the reply starts playing
wake_speak ==
    /\ call = "wake"
    /\ wake_pc = "speak"
    /\ playback' = "reply"
    /\ wake_pc' = "speaking"
    /\ UNCHANGED <<wake_cfg, wake_stream, capture, wake_count, detectorVars>>
    /\ UNCHANGED <<call, nonWake>>

\* speak returns.  It is synthesize_and_play (use_stream_tts, line 85),
\* which returns once the session is finished and the queue is empty; the
\* playback thread may then still be writing the last chunk.
wake_speak_return ==
    /\ call = "wake"
    /\ wake_pc = "speaking"
    /\ playback' \in {"none", "reply"}
    /\ wake_pc' = "resume"
    /\ UNCHANGED <<wake_cfg, wake_stream, capture, wake_count, detectorVars>>
    /\ UNCHANGED <<call, nonWake>>

\* the playback thread ends
playback_ends ==
    /\ call = "wake"
    /\ wake_pc # "speaking"
    /\ playback = "reply"
    /\ playback' = "none"
    /\ UNCHANGED <<wake_pc, wake_cfg, wake_stream, capture, wake_count,
                   detectorVars>>
    /\ UNCHANGED <<call, nonWake>>

\* lines 476-481: back to the wake word, or the end of the conversation
wake_resume ==
    /\ call = "wake"
    /\ wake_pc = "resume"
    /\ IF wake_cfg.return_to_wake_mode
       THEN wake_stream' = "active" /\ wake_pc' = "listen"
       ELSE wake_pc' = "cleanup" /\ UNCHANGED wake_stream
    /\ UNCHANGED <<wake_cfg, capture, playback, wake_count, detectorVars>>
    /\ UNCHANGED <<call, nonWake>>

\* Ctrl-C while waiting for the wake word (line 490)
wake_interrupt ==
    /\ call = "wake"
    /\ wake_pc = "listen"
    /\ wake_pc' = "cleanup"
    /\ UNCHANGED <<wake_cfg, wake_stream, capture, playback, wake_count,
                   detectorVars>>
    /\ UNCHANGED <<call, nonWake>>

\* the finally block (lines 496-509)
wake_cleanup ==
    /\ call = "wake"
    /\ wake_pc = "cleanup"
    /\ wake_stream' = IF wake_stream = "none" THEN "none" ELSE "closed"
    /\ cleanup
    /\ wake_pc' = "ended"
    /\ UNCHANGED <<wake_cfg, capture, playback, wake_count>>
    /\ UNCHANGED <<call, nonWake>>

(***************************************************************************)
(* create_url (xfyun_asr_stream.py lines 51-86, xfyun_tts_stream.py lines  *)
(* 59-94).  Strings are written as records of their parts; HMAC-SHA256 and *)
(* base64 are written as the record of what they were applied to, so that  *)
(* equal outputs are outputs of equal inputs.                              *)
(***************************************************************************)
nonSign == <<probeVars, asrVars, ttsVars, vadVars, liteVars, recVars,
             wakeVars, overlapVars>>

\* no create_url call made yet; the clients hold no credentials that matter
SignIdle ==
    /\ clock = 0
    /\ tz_offset = 0
    /\ api_key = "key1"
    /\ api_secret = "secret1"
    /\ url_calls = <<>>

\* no session of the ASR client has been overtaken by a later one
OverlapIdle ==
    /\ old_sender_pc = "none"
    /\ old_ws = "none"
    /\ old_blocked = FALSE
    /\ old_taken = <<>>

\* now.timetuple() of datetime.now(datetime.timezone.utc) (ASR, line 59):
\* the UTC wall clock, to the second
utc_timetuple(now) == now \div TicksPerSecond
\* now.timetuple() of datetime.now() (TTS, line 67): the local wall clock
local_timetuple(now, tz) == now \div TicksPerSecond + tz
\* time.mktime: a wall clock read as local time, to seconds since the epoch
mktime(fields, tz) == fields - tz
\* wsgiref's format_date_time: the RFC 1123 text of an epoch time, in GMT
format_date_time(epoch) == [rfc1123 |-> epoch]

\* lines 59-60 of each file
asr_date(now, tz) == format_date_time(mktime(utc_timetuple(now), tz))
tts_date(now, tz) == format_date_time(mktime(local_timetuple(now, tz), tz))

hmac_sha256(key, msg) == [hmac |-> <<key, msg>>]
b64text(x) == [b64 |-> x]

\* lines 63-65: "host: H\ndate: D\nGET P HTTP/1.1"
signature_origin(host, date, path) ==
    [host |-> host, date |-> date, request_line |-> <<"GET", path, "HTTP/1.1">>]

\* lines 68-77
authorization_of(host, path, date, key, secret) ==
    b64text([api_key |-> key,
             algorithm |-> "hmac-sha256",
             headers |-> "host date request-line",
             signature |-> b64text(hmac_sha256(secret,
                               signature_origin(host, date, path)))])

\* (a variant: the clock is read again for the query parameter)
date_param_reread(date, later) == later

\* line 82: "date": date, the value that was signed
date_param(date, later) == date

\* lines 56, 80-85: the URL with its query parameters
url_of(host, path, authorization, date) ==
    [base |-> <<"wss://", host, path>>,
     query |-> [authorization |-> authorization, date |-> date,
                host |-> host]]

\* one create_url call of a client: the clock is read (line 59), the time
\* goes on while the URL is built
create_url(client, host, path, later) ==
    /\ Len(url_calls) < MaxUrlCalls
    /\ later \in clock..MaxClock
    /\ LET date  == IF client = "asr" THEN asr_date(clock, tz_offset)
                    ELSE tts_date(clock, tz_offset)
           after == IF client = "asr" THEN asr_date(later, tz_offset)
                    ELSE tts_date(later, tz_offset)
           auth  == authorization_of(host, path, date, api_key, api_secret)
       IN  url_calls' = Append(url_calls,
                [client |-> client, host |-> host, path |-> path,
                 now |-> clock, date |-> date,
                 api_key |-> api_key, api_secret |-> api_secret,
                 authorization |-> auth,
                 url |-> url_of(host, path, auth, date_param(date, after))])
    /\ clock' = later
    /\ UNCHANGED <<tz_offset, api_key, api_secret>>

(***************************************************************************)
(* Specifications.                                                         *)
(***************************************************************************)
\* a recorded utterance of n bytes; the code never looks into a byte, so
\* the bytes are numbered by position to tell them apart
Utterance(n) == [i \in 1..n |-> i]

\* XFyunASRStream after __init__ (lines 41-49), no call made yet
ASRConstructed ==
    /\ result_text = <<>>
    /\ is_finished = FALSE
    /\ audio_queue = <<>>
    /\ frame_count = 0
    /\ status = STATUS_FIRST_FRAME
    /\ ws = "none"
    /\ sender_pc = "none"
    /\ caller_pc = "init"
    /\ elapsed = 0
    /\ wait_ret = <<>>
    /\ pos = 0
    /\ sent = <<>>
    /\ enqueued = <<>>
    /\ sentinel_at = -1
    /\ fin_open = FALSE
    /\ sender_exit = "none"
    /\ n_msgs = 0
    /\ asr_end = "none"

\* XFyunTTSStream after __init__ (lines 48-57), no call made yet
TTSConstructed ==
    /\ tts_is_finished = FALSE
    /\ tts_audio_queue = <<>>
    /\ save_to_file = FALSE
    /\ file_data = <<>>
    /\ tts_ws = "none"
    /\ tts_pc = "init"
    /\ play_pc = "none"
    /\ tts_ret = "none"
    /\ played = <<>>
    /\ tts_put = <<>>
    /\ saved = <<>>
    /\ tts_n_msgs = 0
    /\ tts_end = "none"

NoProbe ==
    /\ asr_msg = NoMsg
    /\ asr_prev = <<>>
    /\ VADConstructed(VADDefaults)
    /\ LiteConstructed(LiteDefaults)
    /\ RecIdle
    /\ WakeIdle
    /\ SignIdle
    /\ OverlapIdle

\* The orchestrator makes one client call at a time (listen, then speak):
\* a run is one ASR session or one synthesize_and_play call.
Init ==
    /\ call \in {"asr", "tts"}
    /\ ASRConstructed
    /\ TTSConstructed
    /\ NoProbe
    /\ audio_data \in {Utterance(n) : n \in 0..MaxAudio}
    /\ chunk_size \in 1..MaxChunk

receive ==
    /\ n_msgs < MaxMsgs
    /\ \E m \in SessionMsgs : on_message(m)
    /\ UNCHANGED probeVars

tts_receive ==
    /\ tts_n_msgs < MaxTTSMsgs
    /\ \E m \in TTSMsgs : tts_on_message(m)

ASRNext ==
    \/ start_recognition
    \/ add_audio_frame
    \/ finish_recording
    \/ wait_call
    \/ wait_loop
    \/ wait_close
    \/ wait_return
    \/ on_open
    \/ receive
    \/ transport_error
    \/ on_close
    \/ sender_check
    \/ sender_empty
    \/ sender_get

TTSNext ==
    \/ synthesize_and_play
    \/ tts_on_open
    \/ tts_receive
    \/ tts_transport_error
    \/ tts_on_close
    \/ tts_wait
    \/ play_open
    \/ play_check
    \/ play_get
    \/ play_empty
    \/ play_timeout

Next == ASRNext \/ TTSNext

Spec == Init /\ [][Next]_vars

(***************************************************************************)
(* The calls of one client instance, one after the other: the orchestrator *)
(* keeps one XFyunASRStream and one XFyunTTSStream (voice_assistant.py     *)
(* lines 72-74) and calls listen and speak in a loop.                      *)
(***************************************************************************)
\* the connection and the sender thread of the ASR call before have ended
asr_session_over == ws \in {"none", "closed"} /\ sender_pc \in {"none", "done"}

\* start_recognition (lines 258-296) called after wait_result has returned.
\* The method looks at neither self.ws nor the sender thread.  When both
\* have ended the new session starts as the first one did; otherwise two
\* sessions of the instance are live and the run is followed no further
\* (call = "overlap").
start_recognition_again ==
    /\ call = "asr"
    /\ caller_pc = "returned"
    /\ result_text' = <<>>
    /\ is_finished' = FALSE
    /\ audio_queue' = <<>>
    /\ frame_count' = 0
    /\ status' = STATUS_FIRST_FRAME
    /\ ws' = "connecting"
    /\ caller_pc' = "feeding"
    /\ IF asr_session_over
       THEN /\ call' = "asr"
            /\ sender_pc' = "none"
            /\ elapsed' = 0
            /\ wait_ret' = <<>>
            /\ pos' = 0
            /\ sent' = <<>>
            /\ enqueued' = <<>>
            /\ sentinel_at' = -1
            /\ fin_open' = FALSE
            /\ sender_exit' = "none"
            /\ n_msgs' = 0
            /\ asr_end' = "none"
       ELSE /\ call' = "overlap"
            /\ UNCHANGED <<sender_pc, elapsed, wait_ret, pos, sent, enqueued,
                           sentinel_at, fin_open, sender_exit, n_msgs,
                           asr_end>>
    /\ UNCHANGED <<audio_data, chunk_size>>
    /\ UNCHANGED <<probeVars, ttsVars, vadVars, liteVars, recVars,
            wakeVars, signVars, overlapVars>>

\* synthesize_and_play (lines 320-356) called after the call before has
\* returned; ws.run_forever (line 356) runs in the caller's thread, so the
\* connection of the call before is looked at the same way
synthesize_and_play_again ==
    /\ call = "tts"
    /\ tts_pc = "returned"
    /\ tts_is_finished' = FALSE
    /\ tts_audio_queue' = <<>>
    /\ file_data' = <<>>
    /\ save_to_file' \in BOOLEAN
    /\ tts_ws' = "connecting"
    /\ tts_pc' = "run"
    /\ IF tts_ws \in {"none", "closed"} /\ play_pc \in {"done", "failed"}
       THEN /\ call' = "tts"
            /\ play_pc' = "open"
            /\ tts_ret' = "none"
            /\ played' = <<>>
            /\ tts_put' = <<>>
            /\ saved' = <<>>
            /\ tts_n_msgs' = 0
            /\ tts_end' = "none"
       ELSE /\ call' = "overlap"
            /\ UNCHANGED <<play_pc, tts_ret, played, tts_put, saved,
                           tts_n_msgs, tts_end>>
    /\ UNCHANGED <<probeVars, asrVars, vadVars, liteVars, recVars,
            wakeVars, signVars, overlapVars>>

CallsNext ==
    \/ Next
    \/ start_recognition_again
    \/ synthesize_and_play_again

SpecCalls == Init /\ [][CallsNext]_vars

(***************************************************************************)
(* start_recognition called again while the connection or the sender       *)
(* thread of the session before is still there.  The earlier send_audio    *)
(* thread runs the same loop (lines 169-197): it reads self.is_finished    *)
(* and self.audio_queue anew on every turn, and sends on the connection    *)
(* it was started with (the ws of on_open's closure).  The earlier         *)
(* connection's run_forever still calls on_close (line 165) of the same    *)
(* instance.  The new session is followed by the actions of the first.     *)
(***************************************************************************)
start_recognition_overlapping ==
    /\ call = "asr"
    /\ caller_pc = "returned"
    /\ ~asr_session_over
    /\ old_sender_pc = "none" /\ old_ws = "none"
    /\ old_sender_pc' = sender_pc
    /\ old_ws' = ws
    \* a get that found the earlier queue empty waits on that queue
    /\ old_blocked' = (sender_pc = "get" /\ audio_queue = <<>>)
    /\ old_taken' = <<>>
    /\ result_text' = <<>>
    /\ is_finished' = FALSE
    /\ audio_queue' = <<>>
    /\ frame_count' = 0
    /\ status' = STATUS_FIRST_FRAME
    /\ ws' = "connecting"
    /\ caller_pc' = "feeding"
    /\ sender_pc' = "none"
    /\ elapsed' = 0
    /\ wait_ret' = <<>>
    /\ pos' = 0
    /\ sent' = <<>>
    /\ enqueued' = <<>>
    /\ sentinel_at' = -1
    /\ fin_open' = FALSE
    /\ sender_exit' = "none"
    /\ n_msgs' = 0
    /\ asr_end' = "none"
    /\ UNCHANGED <<audio_data, chunk_size>>
    /\ UNCHANGED <<call, probeVars, ttsVars, vadVars, liteVars, recVars,
                   wakeVars, signVars>>

\* what an action of the earlier session's threads leaves alone
nonOld == <<call, probeVars, ttsVars, vadVars, liteVars, recVars, wakeVars,
            signVars>>

\* the earlier connection's run_forever ends and calls on_close (line 165)
old_on_close ==
    /\ call = "asr"
    /\ old_ws = "closing"
    /\ old_ws' = "closed"
    /\ is_finished' = TRUE
    /\ asr_end' = IF asr_end = "none" THEN "old_close" ELSE asr_end
    /\ UNCHANGED <<result_text, audio_queue, frame_count, status, ws,
                   sender_pc, caller_pc, elapsed, wait_ret, audio_data,
                   chunk_size, pos, sent, enqueued, sentinel_at, fin_open,
                   sender_exit, n_msgs>>
    /\ UNCHANGED <<old_sender_pc, old_blocked, old_taken>>
    /\ UNCHANGED nonOld

\* the earlier sender: `while not self.is_finished`
old_sender_check ==
    /\ call = "asr"
    /\ old_sender_pc = "check"
    /\ old_sender_pc' = IF is_finished THEN "done" ELSE "get"
    /\ UNCHANGED <<old_ws, old_blocked, old_taken>>
    /\ UNCHANGED asrVars
    /\ UNCHANGED nonOld

\* the earlier sender: queue.get timed out, on the queue it waits on
old_sender_empty ==
    /\ call = "asr"
    /\ old_sender_pc = "get"
    /\ old_blocked \/ audio_queue = <<>>
    /\ old_sender_pc' = "check"
    /\ old_blocked' = FALSE
    /\ UNCHANGED <<old_ws, old_taken>>
    /\ UNCHANGED asrVars
    /\ UNCHANGED nonOld

\* the earlier sender: self.audio_queue.get returned an item of the queue
\* start_recognition has put in place (line 268); it is sent on the earlier
\* connection, ws.send raising when that is not open
old_sender_get ==
    /\ call = "asr"
    /\ old_sender_pc = "get"
    /\ ~old_blocked
    /\ audio_queue # <<>>
    /\ audio_queue' = queue_rest(audio_queue)
    /\ old_taken' = Append(old_taken, queue_get(audio_queue))
    /\ LET item == queue_get(audio_queue) IN
       IF old_ws # "open"
       THEN /\ is_finished' = TRUE
            /\ old_sender_pc' = "done"
            /\ asr_end' = IF asr_end = "none" THEN "old_sender" ELSE asr_end
            /\ UNCHANGED <<status, frame_count>>
       ELSE IF item.none
       THEN /\ old_sender_pc' = "done"
            /\ UNCHANGED <<is_finished, status, frame_count, asr_end>>
       ELSE /\ status' = next_status(status)
            /\ frame_count' = frame_count + 1
            /\ old_sender_pc' = "check"
            /\ UNCHANGED <<is_finished, asr_end>>
    /\ UNCHANGED <<result_text, ws, sender_pc, caller_pc, elapsed, wait_ret,
                   audio_data, chunk_size, pos, sent, enqueued, sentinel_at,
                   fin_open, sender_exit, n_msgs>>
    /\ UNCHANGED <<old_ws, old_blocked>>
    /\ UNCHANGED nonOld

OverlapNext ==
    \/ ASRNext
    \/ start_recognition_overlapping
    \/ old_on_close
    \/ old_sender_check
    \/ old_sender_empty
    \/ old_sender_get

InitOverlap ==
    /\ call = "asr"
    /\ ASRConstructed
    /\ TTSConstructed
    /\ NoProbe
    /\ audio_data \in {Utterance(n) : n \in 0..MaxAudio}
    /\ chunk_size = MaxChunk

SpecOverlap == InitOverlap /\ [][OverlapNext]_vars

(***************************************************************************)
(* The pure-reduction runs: on_message applied once to an open session     *)
(* whose accumulator holds any text up to MaxAcc characters (an interim    *)
(* message carrying that text puts it there).                              *)
(***************************************************************************)
InitReduce ==
    /\ call = "asr"
    /\ result_text \in SeqsUpTo(ReduceChars, MaxAcc)
    /\ is_finished = FALSE
    /\ audio_queue = <<>>
    /\ frame_count = 0
    /\ status = STATUS_FIRST_FRAME
    /\ ws = "open"
    /\ sender_pc = "check"
    /\ caller_pc = "feeding"
    /\ elapsed = 0
    /\ wait_ret = <<>>
    /\ audio_data = <<>>
    /\ chunk_size = 1
    /\ pos = 0
    /\ sent = <<>>
    /\ enqueued = <<>>
    /\ sentinel_at = -1
    /\ fin_open = FALSE
    /\ sender_exit = "none"
    /\ n_msgs = 0
    /\ asr_end = "none"
    /\ TTSConstructed
    /\ NoProbe

reduce_step ==
    /\ n_msgs = 0
    /\ \E m \in ReduceMsgs :
          /\ on_message(m)
          /\ asr_msg' = m
          /\ asr_prev' = result_text

SpecReduce == InitReduce /\ [][reduce_step]_vars


\* the same interim message is delivered again, straight after
reduce_again ==
    /\ n_msgs = 1
    /\ asr_msg.status \in {0, 1}
    /\ on_message(asr_msg)
    /\ asr_msg' = asr_msg
    /\ asr_prev' = result_text

TwiceNext ==
    \/ reduce_step
    \/ reduce_again

SpecTwice == InitReduce /\ [][TwiceNext]_vars

(***************************************************************************)
(* Fairness: a started thread keeps running.  The sender thread, the       *)
(* caller inside wait_result and run_forever's teardown after ws.close()   *)
(* each take their next step; the server, the network and the caller's     *)
(* decisions to add a frame or to finish are under no obligation.          *)
(* The runs are the ASR sessions over the longest utterance, cut into      *)
(* frames of one byte; the caller may stop adding frames at any point.     *)
(***************************************************************************)
InitASR ==
    /\ call = "asr"
    /\ ASRConstructed
    /\ TTSConstructed
    /\ NoProbe
    /\ audio_data = Utterance(MaxAudio)
    /\ chunk_size = 1

FairSpec ==
    /\ InitASR
    /\ [][ASRNext]_vars
    /\ WF_vars(sender_check)
    /\ WF_vars(sender_empty)
    /\ WF_vars(sender_get)
    /\ WF_vars(wait_loop)
    /\ WF_vars(wait_close)
    /\ WF_vars(wait_return)
    /\ WF_vars(on_close)

(***************************************************************************)
(* The same for a synthesize_and_play call: the playback thread, the       *)
(* caller's wait loop (lines 360-361) and run_forever's teardown after     *)
(* ws.close() each take their next step; the server and the network are    *)
(* under no obligation.                                                    *)
(***************************************************************************)
InitTTS ==
    /\ call = "tts"
    /\ ASRConstructed
    /\ TTSConstructed
    /\ NoProbe
    /\ audio_data = <<>>
    /\ chunk_size = 1

FairTTS ==
    /\ InitTTS
    /\ [][TTSNext]_vars
    /\ WF_vars(tts_on_close)
    /\ WF_vars(tts_wait)
    /\ WF_vars(play_open)
    /\ WF_vars(play_check)
    /\ WF_vars(play_get)
    /\ WF_vars(play_empty)
    /\ WF_vars(play_timeout)

(***************************************************************************)
(* The detector runs: one detector, constructed with one of the            *)
(* configurations, is given frames one after the other.                    *)
(***************************************************************************)
InitVAD ==
    /\ call \in {"vad", "lite"}
    /\ ASRConstructed
    /\ TTSConstructed
    /\ asr_msg = NoMsg
    /\ asr_prev = <<>>
    /\ audio_data = <<>>
    /\ chunk_size = 1
    /\ \E cfg \in VADConfigs :
         VADConstructed(IF call = "vad" THEN cfg ELSE VADDefaults)
    /\ \E cfg \in LiteConfigs :
         LiteConstructed(IF call = "lite" THEN cfg ELSE LiteDefaults)
    /\ RecIdle
    /\ WakeIdle
    /\ SignIdle
    /\ OverlapIdle

\* a run of speech followed by a run of silence
SpeechThenSilence(h) ==
    \A i \in 1..Len(h) : \A j \in i..Len(h) : ~h[i] => ~h[j]

\* the probabilities a frame is given: none, the threshold, just above, all
SpeechProbs == {0, 5, 6, 10}

\* the histories the detector runs go through
VADRun(h) ==
    \/ Len(h) <= MaxVadFrames
    \/ Len(h) <= MaxRun /\ SpeechThenSilence(h)

vad_frame ==
    /\ call = "vad"
    /\ \E prob \in {p \in SpeechProbs :
                       VADRun(Append(vad_hist, p > vad_cfg.threshold))} :
          vad_process_frame(prob)
    /\ UNCHANGED nonVAD

\* the caller resets the detector for the next utterance
vad_again ==
    /\ call = "vad"
    /\ vad_reset
    /\ UNCHANGED nonVAD

\* the frames of a history that are not of the frame size
OddFrames(h) ==
    Cardinality({i \in 1..Len(h) : h[i].frame[1].bytes # frame_size_bytes})

LiteRun(h) ==
    \/ Len(h) <= MaxLiteFrames /\ OddFrames(h) <= MaxOddFrames
    \/ /\ Len(h) <= MaxRun
       /\ OddFrames(h) = 0
       /\ SpeechThenSilence([i \in 1..Len(h) |-> h[i].speech])

\* the frames a capture may continue with: the next frame, of the frame
\* size or a byte off, speech or not
NextFrames ==
    {x \in [frame : {Captured(Len(lite_hist) + 1, len) :
                        len \in {frame_size_bytes - 1, frame_size_bytes,
                                 frame_size_bytes + 1}},
            speech : BOOLEAN] :
        LiteRun(Append(lite_hist, x))}

lite_frame ==
    /\ call = "lite"
    /\ \E x \in NextFrames : lite_process_frame(x.frame, x.speech)
    /\ UNCHANGED nonLite

lite_again ==
    /\ call = "lite"
    /\ lite_reset
    /\ UNCHANGED nonLite

VADNext ==
    \/ vad_again
    \/ vad_frame
    \/ lite_again
    \/ lite_frame

SpecVAD == InitVAD /\ [][VADNext]_vars

\* the is_speech of the frames the classifier detector was given
LiteSpeech == [i \in 1..Len(lite_hist) |-> lite_hist[i].speech]

\* A recording: one of the two VAD recorders, called again and again, each
\* call with the detector parameters the run was started with.
InitRec ==
    /\ call \in {"rec", "rec_lite"}
    /\ ASRConstructed
    /\ TTSConstructed
    /\ asr_msg = NoMsg
    /\ asr_prev = <<>>
    /\ audio_data = <<>>
    /\ chunk_size = 1
    /\ \E cfg \in RecVADConfigs :
         VADConstructed(IF call = "rec" THEN cfg ELSE VADDefaults)
    /\ \E cfg \in RecLiteConfigs :
         LiteConstructed(IF call = "rec_lite" THEN cfg ELSE LiteDefaults)
    /\ RecIdle
    /\ WakeIdle
    /\ SignIdle
    /\ OverlapIdle

\* silence, then speech, then silence (any of the three may be empty)
SilenceSpeechSilence(h) ==
    LET S == {i \in 1..Len(h) : h[i]}
    IN  \A i \in S : \A k \in S : k - i < Cardinality(S)

\* the streams a recording is given: any short one, and the long ones that
\* are silence, speech, silence
RecRun(h) ==
    \/ Len(h) <= MaxRecFrames
    \/ Len(h) <= MaxRun /\ SilenceSpeechSilence(h)

\* the deadlines of a call: a short one, one that falls in the utterance,
\* and one later than any stream
MaxDurations == {MaxRecFrames - 4, 3 * MaxRecFrames, MaxRun - 1}

rec_call == \E d \in MaxDurations : rec_start(d)

rec_vad_read ==
    \E prob \in {p \in SpeechProbs :
                    RecRun(Append(vad_hist, p > vad_cfg.threshold))} :
        rec_vad_frame(prob)

rec_lite_read ==
    \E b \in {s \in BOOLEAN : RecRun(Append(LiteSpeech, s))} :
        rec_lite_frame(b)

RecNext ==
    \/ rec_call
    \/ rec_vad_read
    \/ rec_lite_read
    \/ rec_interrupt

SpecRec == InitRec /\ [][RecNext]_vars

\* The wake-word detector on its own: a detector object, initialized or
\* not, given frames of any length.
InitDetect ==
    /\ call = "detect"
    /\ ASRConstructed
    /\ TTSConstructed
    /\ NoProbe
    /\ audio_data = <<>>
    /\ chunk_size = 1

\* the frames given: the right length, a sample short, a byte short, a
\* sample long, twice as long, empty; as bytes and as arrays
DetectFrames ==
    {AudioFrame("bytes", detect_calls + 1, len) :
        len \in {0, 2 * frame_length - 2, 2 * frame_length - 1,
                 2 * frame_length, 2 * frame_length + 2, 4 * frame_length}}
    \cup {AudioFrame("array", detect_calls + 1, len) :
            len \in {frame_length - 1, frame_length, frame_length + 1}}

detect_call ==
    /\ call = "detect"
    /\ detect_calls < MaxDetects
    /\ \E f \in DetectFrames : \E r \in EngineResults : detect(f, r)
    /\ detect_calls' = detect_calls + 1
    /\ UNCHANGED <<wake_pc, wake_cfg, wake_stream, capture, playback,
                   wake_count>>
    /\ UNCHANGED <<call, nonWake>>

initialize_call ==
    /\ call = "detect"
    /\ \E o \in {"created", "raised", "missing"} : initialize(o)
    /\ UNCHANGED <<wake_pc, wake_cfg, wake_stream, capture, playback,
                   wake_count>>
    /\ UNCHANGED <<call, nonWake>>

cleanup_call ==
    /\ call = "detect"
    /\ cleanup
    /\ UNCHANGED <<wake_pc, wake_cfg, wake_stream, capture, playback,
                   wake_count>>
    /\ UNCHANGED <<call, nonWake>>

DetectNext ==
    \/ detect_call
    \/ initialize_call
    \/ cleanup_call

SpecDetect == InitDetect /\ [][DetectNext]_vars

\* Wake-word mode: run_with_wake_word is called on an assistant whose
\* detector, if it has one, was initialized (lines 129-135).
InitWake ==
    /\ call = "wake"
    /\ ASRConstructed
    /\ TTSConstructed
    /\ asr_msg = NoMsg
    /\ asr_prev = <<>>
    /\ audio_data = <<>>
    /\ chunk_size = 1
    /\ VADConstructed(VADDefaults)
    /\ LiteConstructed(LiteDefaults)
    /\ RecIdle
    /\ SignIdle
    /\ OverlapIdle
    /\ \E d \in BOOLEAN : \E r \in BOOLEAN : \E w \in BOOLEAN :
         /\ wake_cfg = WakeConfig(d, r, w)
         /\ is_active = d
         /\ porcupine = IF d THEN "engine" ELSE "None"
    /\ detect_ret = NotDetected
    /\ engine_in = NoSamples
    /\ engine_out = NoEngine
    /\ detect_arg = NoFrame
    /\ detect_calls = 0
    /\ wake_pc = "init"
    /\ wake_stream = "none"
    /\ capture = FALSE
    /\ playback = "none"
    /\ wake_count = 0

WakeNext ==
    \/ wake_open
    \/ \E r \in EngineResults : wake_frame(r)
    \/ wake_respond
    \/ wake_response_end
    \/ wake_stop_stream
    \/ wake_record
    \/ \E o \in {"audio", "none", "raised"} : wake_record_end(o)
    \/ \E o \in {"text", "empty", "raised"} : wake_recognize(o)
    \/ wake_speak
    \/ wake_speak_return
    \/ playback_ends
    \/ wake_resume
    \/ wake_interrupt
    \/ wake_cleanup

SpecWake == InitWake /\ [][WakeNext]_vars

\* URL signing: the two streaming clients of one assistant, built with the
\* same credentials (voice_assistant.py lines 72-74), on a machine in some
\* time zone.
InitSign ==
    /\ call = "sign"
    /\ ASRConstructed
    /\ TTSConstructed
    /\ asr_msg = NoMsg
    /\ asr_prev = <<>>
    /\ audio_data = <<>>
    /\ chunk_size = 1
    /\ VADConstructed(VADDefaults)
    /\ LiteConstructed(LiteDefaults)
    /\ RecIdle
    /\ WakeIdle
    /\ clock = 0
    /\ tz_offset \in {0, 28800}
    /\ api_key \in {"key1", "key2"}
    /\ api_secret \in {"secret1", "secret2"}
    /\ url_calls = <<>>
    /\ OverlapIdle

asr_create_url ==
    /\ call = "sign"
    /\ \E later \in clock..MaxClock :
          create_url("asr", "iat-api.xfyun.cn", "/v2/iat", later)
    /\ UNCHANGED <<call, nonSign>>

tts_create_url ==
    /\ call = "sign"
    /\ \E later \in clock..MaxClock :
          create_url("tts", "cbm01.cn-huabei-1.xf-yun.com",
                     "/v1/private/mcd9m97e6", later)
    /\ UNCHANGED <<call, nonSign>>

\* time passes between calls
tick ==
    /\ call = "sign"
    /\ clock < MaxClock
    /\ clock' = clock + 1
    /\ UNCHANGED <<tz_offset, api_key, api_secret, url_calls>>
    /\ UNCHANGED <<call, nonSign>>

SignNext ==
    \/ asr_create_url
    \/ tts_create_url
    \/ tick

SpecSign == InitSign /\ [][SignNext]_vars

(***************************************************************************)
(* Properties.                                                             *)
(***************************************************************************)
\* the audio of the frames sent: the payloads, decoded, of the envelopes
\* that carry a frame (phase first or continue)
RECURSIVE FrameAudio(_)
FrameAudio(envs) ==
    IF envs = <<>> THEN <<>>
    ELSE IF Head(envs).status = STATUS_LAST_FRAME THEN FrameAudio(Tail(envs))
    ELSE <<b64decode(Head(envs).audio)>> \o FrameAudio(Tail(envs))

IsPrefix(p, q) == Len(p) <= Len(q) /\ SubSeq(q, 1, Len(p)) = p

\* one first envelope, then continue envelopes, then one last envelope
PhaseShape(envs) ==
    /\ Len(envs) >= 2
    /\ envs[1].status = 0 /\ envs[1].config
    /\ envs[Len(envs)].status = 2
    /\ \A i \in 2..(Len(envs) - 1) : envs[i].status = 1

\* C1: the ordered envelopes of a session are one `first`, then zero or
\* more `continue`, then one `last`, whatever the number of frames enqueued
\* (zero included).  Stated for the sessions whose sender loop ran to the
\* sentinel of finish_recording, the regular end of a session.
C1_FramePhases ==
    (sender_pc = "done" /\ sender_exit = "sentinel") => PhaseShape(sent)

\* the text the probed message carries
ProbedText == message_text(asr_msg.words)
Applied == n_msgs = 1 /\ asr_msg.has_ws

PunctuationOnly(t) == t # <<>> /\ \A i \in 1..Len(t) : t[i] \in PunctuationMarks

\* C2: a final-status message whose text is empty or consists only of
\* punctuation, one mark or several, leaves the accumulator as it was.
C2_FinalPunctuationKept ==
    (Applied /\ asr_msg.status = 2
        /\ (ProbedText = <<>> \/ PunctuationOnly(ProbedText)))
    => result_text = asr_prev

\* C3: a final-status message whose text is non-empty and not only
\* punctuation makes the accumulator that text, whatever its length.
\* Stated for the texts that hold a character other than a mark or a blank.
C3_FinalReplaces ==
    (Applied /\ asr_msg.status = 2
        /\ \E i \in 1..Len(ProbedText) :
              ProbedText[i] \notin PunctuationMarks \cup Whitespace)
    => result_text = ProbedText

\* C4: an interim message with non-empty text t, accumulator a: the new
\* accumulator is t if t starts with a, else t if t is longer than a, else
\* a followed by t if t does not occur in a, else a.
C4_InterimReduction ==
    (Applied /\ asr_msg.status \in {0, 1} /\ ProbedText # <<>>)
    => result_text =
         IF Len(ProbedText) >= Len(asr_prev)
            /\ SubSeq(ProbedText, 1, Len(asr_prev)) = asr_prev
         THEN ProbedText
         ELSE IF Len(ProbedText) > Len(asr_prev) THEN ProbedText
         ELSE IF \A i \in 1..(Len(asr_prev) - Len(ProbedText) + 1) :
                    SubSeq(asr_prev, i, i + Len(ProbedText) - 1) # ProbedText
              THEN asr_prev \o ProbedText
         ELSE asr_prev

\* the appending case of C4 has happened: a text that neither extends the
\* accumulator nor is longer nor occurs in it was appended
C4_Witness ==
    /\ Applied /\ asr_msg.status \in {0, 1}
    /\ asr_prev = <<"ni", "hao">>
    /\ ProbedText = <<"hao", "ni">>
    /\ result_text = <<"ni", "hao", "hao", "ni">>

InWaitResult == caller_pc \in {"wait_loop", "wait_close", "wait_return"}

\* C5: wait_result(timeout) always returns: a caller inside wait_result
\* leaves it.  When it left on the timeout, the session is marked finished
\* and the connection has been closed; the value returned is the accumulator
\* as it stood at the return.
C5_WaitResultReturns ==
    /\ InWaitResult ~> (caller_pc = "returned")
    /\ [](caller_pc = "returned" /\ asr_end = "timeout"
            => is_finished /\ ws \in {"closing", "closed"})
    /\ [][caller_pc = "wait_return" /\ caller_pc' = "returned"
            => wait_ret' = result_text]_vars


\* a caller has come back from wait_result on the timeout, with the partial
\* text an interim message left
C5_Witness ==
    /\ caller_pc = "returned"
    /\ asr_end = "timeout"
    /\ wait_ret = <<"ni">>
    /\ is_finished

\* C6: once the session is marked finished, no later inbound message
\* changes the accumulator.
C6_FrozenOnceFinished == [][is_finished => result_text' = result_text]_vars

\* C7: an inbound message with a non-zero code (ASR: top level, TTS:
\* header) marks the session finished and closes the connection in the
\* same callback, and nothing else of it is applied: the accumulator is
\* unchanged, no chunk is put on the queue or kept for the file.
C7_ErrorCodeAborts ==
    [][/\ \A m \in SessionMsgs :
            (m.json_ok /\ m.code # 0 /\ on_message(m))
            => /\ is_finished'
               /\ ws' = "closing"
               /\ result_text' = result_text
       /\ \A m \in TTSMsgs :
            (m.json_ok /\ m.has_header /\ m.code # 0 /\ tts_on_message(m))
            => /\ tts_is_finished'
               /\ tts_ws' = "closing"
               /\ tts_audio_queue' = tts_audio_queue
               /\ tts_put' = tts_put
               /\ file_data' = file_data
               /\ saved' = saved
      ]_vars

\* an error code arrived on a message that also carried a result, after an
\* interim result: the session is finished, closing, the accumulator kept
C7_Witness ==
    /\ asr_end = "code"
    /\ n_msgs = 2
    /\ result_text = <<"ni">>
    /\ is_finished
    /\ ws = "closing"

\* every character a transcript can hold
TextChars == ReduceChars \cup PunctuationMarks

\* the session ended by a protocol or transport error
ASRFailed == asr_end \in {"code", "exception", "close", "sender"}
TTSFailed == tts_end \in {"code", "exception", "close"}

\* C8: a session ended by a protocol or transport error is surfaced to the
\* caller: what wait_result / synthesize_and_play gives after it is not
\* something a session that completed normally gives.  A normal ASR session
\* gives its transcript, any text, the empty one included; a normal TTS call
\* gives True.
C8_ErrorSurfaced ==
    /\ (caller_pc = "returned" /\ ASRFailed) => wait_ret \notin Seq(TextChars)
    /\ (tts_pc = "returned" /\ TTSFailed) => tts_ret # "True"

\* all the frames enqueued before the sentinel were sent, in order, then one
\* `last` envelope with empty audio, and nothing else
SentAllThenLast ==
    /\ sent # <<>>
    /\ sent[Len(sent)].status = STATUS_LAST_FRAME
    /\ sent[Len(sent)].audio = <<>>
    /\ \A i \in 1..(Len(sent) - 1) : sent[i].status # STATUS_LAST_FRAME
    /\ FrameAudio(sent) = SubSeq(enqueued, 1, sentinel_at)

C10_CaptureOrder ==
    /\ IsPrefix(FrameAudio(sent), enqueued)
    /\ join(enqueued) = SubSeq(audio_data, 1, Min(pos, Len(audio_data)))
    /\ (pos >= Len(audio_data) => join(enqueued) = audio_data)

\* an utterance of three bytes was cut into frames of two bytes and of one,
\* and both were sent
C10_Witness ==
    /\ audio_data = <<1, 2, 3>>
    /\ chunk_size = 2
    /\ enqueued = <<<<1, 2>>, <<3>>>>
    /\ FrameAudio(sent) = enqueued

\* the chunks put on the playback queue, in arrival order
PutAudio == [i \in 1..Len(tts_put) |-> tts_put[i].audio]

\* C11: a chunk whose sequence number is not greater than that of the chunk
\* before it is rejected, not played: of the chunks written to the sink,
\* each has a greater seq than the one played before it.
C11_OutOfOrderRejected ==
    \A i \in 2..Len(played) :
        i <= Len(tts_put) => tts_put[i - 1].seq < tts_put[i].seq

\* C12: the playback loop is left only in a state where the completion flag
\* is set and the chunk queue is empty, under every interleaving with the
\* receiver callback.
C12_PlaybackExit ==
    play_pc = "done" => tts_is_finished /\ tts_audio_queue = <<>>

\* C13: the chunks written to the sink are at every moment a prefix of the
\* chunks decoded from the inbound messages, in arrival order.
C13_PlayedPrefix == IsPrefix(played, PutAudio)

\* two different chunks arrived and both were played, in arrival order
C13_Witness ==
    /\ played = <<Chunk1, Chunk2>>
    /\ PutAudio = <<Chunk1, Chunk2>>

\* C14: every chunk put on the playback queue is eventually written to the
\* sink.  The playback thread writes nothing after it has left its loop, so
\* when it has, every chunk put has been written.
C14_EveryChunkPlayed ==
    play_pc = "done" => Len(played) = Len(tts_put)

Max(a, b) == IF a > b THEN a ELSE b

\* the number of the last frame of a history that is (b = TRUE) speech or
\* (b = FALSE) silence, 0 if there is none
LastOf(h, b) ==
    LET at == {i \in 1..Len(h) : h[i] = b} IN
    IF at = {} THEN 0 ELSE CHOOSE i \in at : \A j \in at : j <= i

\* the length of the run of silent, of voiced frames a history ends with
TrailingSilence(h) == Len(h) - LastOf(h, TRUE)
TrailingSpeech(h) == Len(h) - LastOf(h, FALSE)

\* frames of 32 ms: 512 samples at 16 kHz
Frames32ms ==
    vad_cfg.window_size_samples * 1000 = 32 * vad_cfg.sample_rate

\* C15: with min_speech_duration_ms = 250 and frames of 32 ms, from a reset
\* detector, 7 consecutive voiced frames do not set is_speaking and 8 do.
C15_SpeechHysteresis ==
    (/\ call = "vad"
     /\ vad_cfg.min_speech_duration_ms = 250
     /\ Frames32ms
     /\ TrailingSpeech(vad_hist) = Len(vad_hist))
    => /\ Len(vad_hist) = 7 => ~vad_is_speaking
       /\ Len(vad_hist) = 8 => vad_is_speaking

\* C16: is_speaking becomes true only on a frame that ends a run of at
\* least min_speech_frames consecutive voiced frames.
C16_TriggerOnRun ==
    [][(~vad_is_speaking /\ vad_is_speaking')
         => TrailingSpeech(vad_hist') >= min_speech_frames]_vars

\* C17: once triggered, with min_silence_duration_ms = 800 and frames of
\* 30 ms, should_stop is false while fewer than 27 consecutive silent frames
\* have followed the last voiced frame and true once 27 or more have; for
\* the classifier detector and for the probabilistic one.
C17_SilenceStop ==
    /\ (/\ call = "lite"
        /\ lite_cfg.min_silence_duration_ms = 800
        /\ lite_cfg.frame_duration_ms = 30
        /\ triggered)
       => (lite_ret.should_stop <=> TrailingSilence(LiteSpeech) >= 27)
    /\ (/\ call = "vad"
        /\ vad_cfg.min_silence_duration_ms = 800
        /\ vad_cfg.window_size_samples * 1000 = 30 * vad_cfg.sample_rate
        /\ vad_is_speaking)
       => (vad_ret.should_stop <=> TrailingSilence(vad_hist) >= 27)

\* C18: process_frame returns should_stop = true on a frame if and only if
\* the detector has triggered and the run of consecutive non-speech frames
\* ending at that frame is at least min_silence_frames long; the count of
\* silent frames is the length of that run, 0 after a speech frame.
C18_StopIffSilenceRun ==
    (call = "vad" /\ vad_hist # <<>>)
    => /\ vad_ret.should_stop
            <=> (vad_is_speaking
                 /\ TrailingSilence(vad_hist) >= min_silence_frames)
       /\ vad_silence_frames = TrailingSilence(vad_hist)
       /\ vad_ret.is_speech = vad_hist[Len(vad_hist)]
       /\ vad_ret.is_speech => vad_silence_frames = 0

\* silence before the trigger, then speech, then the silence that stops
C18_Witness ==
    /\ call = "vad"
    /\ vad_hist = <<FALSE, FALSE, TRUE, TRUE, FALSE, FALSE, FALSE>>
    /\ min_silence_frames = 3
    /\ vad_ret.should_stop

\* the voiced frames among the (up to padding_frames) frames ending with
\* frame k
VoicedAt(k) ==
    Cardinality({i \in Max(1, k - padding_frames + 1)..k : lite_hist[i].speech})

\* the least number of a set of frame numbers, 0 if it is empty
First(S) == IF S = {} THEN 0 ELSE CHOOSE k \in S : \A j \in S : k <= j

\* C19 as claimed: the detector triggers on the first frame after which the
\* voiced frames are more than half of the frames held in the ring, full or
\* not, and on no earlier frame.
C19_TriggerAtHalfOfHeld ==
    call = "lite"
    => /\ trigger_at = First({k \in 1..Len(lite_hist) :
                                2 * VoicedAt(k) > Min(k, padding_frames)})
       /\ triggered <=> trigger_at # 0

\* C19, amended: the detector triggers on the first frame after which the
\* voiced frames held in the ring are more than half of the ring's
\* capacity padding_frames, and on no earlier frame.
C19_TriggerAtHalfOfCapacity ==
    call = "lite"
    => /\ trigger_at = First({k \in 1..Len(lite_hist) :
                                2 * VoicedAt(k) > padding_frames})
       /\ triggered <=> trigger_at # 0

\* the trigger came on a full ring that had dropped a frame
C19_Witness ==
    /\ call = "lite"
    /\ triggered
    /\ padding_frames = 2
    /\ trigger_at = 3
    /\ LiteSpeech = <<FALSE, TRUE, TRUE>>

\* the frames from number `from` on, as process_frame sized them
FramesFrom(from) ==
    [i \in 1..(Len(lite_hist) - from + 1) |->
        lite_adjust(lite_hist[from + i - 1].frame, frame_size_bytes)]

\* the first frame of the utterance: the oldest the ring held at the trigger
Onset == Max(1, trigger_at - padding_frames + 1)

\* C20: the utterance buffer is at all times a contiguous run of the
\* processed frames in capture order: empty before the trigger; at the
\* trigger the ring's contents, the ring then being empty; every later
\* frame appended once; the audio returned at stop is their concatenation.
C20_UtteranceContiguous ==
    call = "lite"
    => /\ ~triggered => voiced_frames = <<>>
       /\ triggered => voiced_frames = FramesFrom(Onset)
       /\ (triggered /\ trigger_at = Len(lite_hist)) => ring_buffer = <<>>
       /\ lite_ret.should_stop
            => /\ ~lite_ret.buffered_audio.none
               /\ lite_ret.buffered_audio.data =
                     [i \in 1..Len(FramesFrom(Onset)) |-> FramesFrom(Onset)[i][1]]
       /\ ~lite_ret.should_stop => lite_ret.buffered_audio.none

\* a stop after a trigger on a full ring: the buffer runs from the frame
\* before the trigger to the last frame, one of them cut to the frame size
C20_Witness ==
    /\ call = "lite"
    /\ lite_ret.should_stop
    /\ trigger_at = 3
    /\ padding_frames = 2
    /\ Len(lite_hist) = 6
    /\ Len(voiced_frames) = 5
    /\ lite_hist[4].frame[1].bytes > frame_size_bytes

\* the unvoiced frames among the frames the ring holds after frame k of a
\* triggered detector: the last padding_frames frames, none of them older
\* than the frame after the trigger
UnvoicedAt(hist, k) ==
    Cardinality({i \in Max(trigger_at + 1, k - padding_frames + 1)..k :
                    ~hist[i].speech})

\* C21: after the trigger, each frame adds one to the silence counter when
\* more than 0.9 of the padding window is unvoiced and sets it to 0
\* otherwise; should_stop is true on a frame exactly when the counter has
\* reached min_silence_frames, and the whole buffered utterance is returned
\* on that frame.
C21_SilenceCounter ==
    [][(call = "lite" /\ triggered /\ Len(lite_hist') = Len(lite_hist) + 1)
         => /\ silence_counter' =
                  IF 10 * UnvoicedAt(lite_hist', Len(lite_hist'))
                        > 9 * padding_frames
                  THEN silence_counter + 1 ELSE 0
            /\ lite_ret'.should_stop
                  <=> silence_counter' >= lite_silence_frames
            /\ lite_ret'.should_stop
                  => /\ ~lite_ret'.buffered_audio.none
                     /\ lite_ret'.buffered_audio.data = join(voiced_frames')
                     /\ Len(voiced_frames') = Len(voiced_frames) + 1]_vars

\* a stop on the frame where the counter reaches the two frames of a 60 ms
\* silence threshold, after a speech frame had set it back to 0
C21_Witness ==
    /\ call = "lite"
    /\ lite_ret.should_stop
    /\ padding_frames = 2
    /\ silence_counter = 2
    /\ lite_silence_frames = 2
    /\ \E k \in (trigger_at + 3)..(Len(lite_hist) - 3) : lite_hist[k].speech

\* C22: a stream of silence, then speech, then silence given frame by frame
\* to the classifier detector through record_with_vad_lite stops the
\* recording on one frame, and the buffer returned then starts with the
\* padding-window frames held at the trigger and holds no more trailing
\* silence than the configured silence threshold.
C22_StopOnceTrimmed ==
    (/\ call = "rec_lite"
     /\ rec_end = "stop"
     /\ SilenceSpeechSilence(LiteSpeech))
    => /\ ~rec_ret.none
       /\ rec_ret.data =
             [i \in 1..Len(FramesFrom(Onset)) |-> FramesFrom(Onset)[i][1]]
       /\ TrailingSilence(LiteSpeech) <= lite_silence_frames

\* C23: a recording with record_with_vad_lite that is not interrupted ends
\* at the first frame for which should_stop is true or at the first frame
\* read after max_duration has passed, so after at most max_duration + 1
\* frames; at the deadline it returns what the detector has buffered so
\* far, and (None, 0) when the detector never triggered.
C23_RecordingEnds ==
    call = "rec_lite"
    => /\ rec_frame_count <= rec_max + 1
       /\ rec_pc = "loop"
            => (rec_frame_count <= rec_max /\ ~lite_ret.should_stop)
       /\ rec_end = "stop"
            => (rec_pc = "returned" /\ lite_ret.should_stop)
       /\ rec_end = "deadline"
            => /\ rec_pc = "returned"
               /\ ~lite_ret.should_stop
               /\ rec_frame_count = rec_max + 1
               /\ triggered
                    => /\ ~rec_ret.none
                       /\ rec_ret.data = join(voiced_frames)
                       /\ Len(voiced_frames) = Len(lite_hist) - Onset + 1
       /\ (rec_end \in {"stop", "deadline"} /\ ~triggered)
            => rec_ret = NoRec

\* the deadline falls in the utterance: the detector triggered at frame 6,
\* the recording ends at frame 22 with the 22 frames returned
C23_Witness ==
    /\ call = "rec_lite"
    /\ rec_end = "deadline"
    /\ rec_max = 21
    /\ trigger_at = 6
    /\ ~rec_ret.none
    /\ Len(rec_ret.data) = 22

\* C24: with the probabilistic detector, no frame captured before the
\* detector triggers is part of the recording: record_with_vad keeps a
\* frame only once the detector's is_speaking is true.
C24_BufferedAfterTrigger ==
    call = "rec"
    => \A i \in 1..Len(rec_frames) :
          /\ rec_trigger_at # 0
          /\ rec_frames[i][1].n >= rec_trigger_at

\* C25: at most one streaming connection of a client instance is active: a
\* call of start_recognition or of synthesize_and_play that follows another
\* opens its connection only when the connection and the sender thread of
\* the call before have ended.
C25_OneSessionAtATime ==
    [][/\ (caller_pc = "returned" /\ ws' = "connecting")
            => (ws \in {"none", "closed"} /\ sender_pc \in {"none", "done"})
       /\ (tts_pc = "returned" /\ tts_ws' = "connecting")
            => tts_ws \in {"none", "closed"}]_vars

\* C26: within one session the completion flag goes from false to true
\* once and does not return to false before start_recognition starts the
\* next session, whichever of a final message, an error, the close callback
\* and the wait_result timeout come and in whichever order; a call that has
\* returned left the flag true; and the close of wait_result on a
\* connection that is already closing or closed changes nothing of the
\* session.
C26_FinishedOnce ==
    [][/\ (is_finished /\ ~is_finished')
            => (caller_pc = "returned" /\ caller_pc' = "feeding")
       /\ caller_pc' = "returned" => is_finished'
       /\ (ws = "closed" /\ ws' # "closed")
            => (caller_pc = "returned" /\ caller_pc' = "feeding")
       /\ (/\ caller_pc = "wait_close"
           /\ caller_pc' = "wait_return"
           /\ ws \in {"closing", "closed"})
            => /\ ws' = ws
               /\ is_finished' = is_finished
               /\ result_text' = result_text
               /\ audio_queue' = audio_queue
               /\ asr_end' = asr_end]_vars

\* the timeout came first, then a final message on the still open
\* connection, then the close of wait_result and the close callback
C26_Witness ==
    /\ call = "asr"
    /\ caller_pc = "returned"
    /\ asr_end = "timeout"
    /\ result_text = <<"ni", "hao">>
    /\ ws = "closed"
    /\ is_finished

\* C27: capture and playback are serialized in wake-word mode: no capture
\* stream (the wake-word stream, or the utterance recorder's) is active
\* while the wake response or the reply is being played.
C27_CaptureXorPlayback ==
    call = "wake"
    => ~((wake_stream = "active" \/ capture) /\ playback # "none")

\* C28: detect returns (True, k) with k >= 0 only when the engine reported
\* keyword k for that frame; in every other case (the engine not
\* initialized, the initialization failed, after cleanup, the scoring
\* raised, no keyword) it returns (False, -1); never detected with a
\* negative index, never not detected with an index >= 0.
C28_DetectResult ==
    [][detect_calls' = detect_calls + 1
         => /\ detect_ret'.detected <=> detect_ret'.keyword_index >= 0
            /\ detect_ret' =
                  IF /\ is_active
                     /\ porcupine = "engine"
                     /\ engine_out'.called
                     /\ ~engine_out'.raised
                     /\ engine_out'.index >= 0
                  THEN DetectRet(TRUE, engine_out'.index)
                  ELSE NotDetected
            /\ (~is_active \/ porcupine = "None") => ~engine_out'.called]_vars

\* the second keyword was reported for a frame
C28_Witness ==
    /\ call = "detect"
    /\ detect_ret = DetectRet(TRUE, 1)
    /\ engine_out = EngineOut(TRUE, FALSE, 1)
    /\ detect_calls = 2

\* C29: every frame passed to the wake-word engine has exactly frame_length
\* (512) samples: a shorter input with zero samples added at its end, a
\* longer input cut to its first frame_length samples, an input of the
\* right length unchanged.
C29_FrameFitted ==
    (call = "detect" /\ ~engine_in.none)
    => LET s == IF detect_arg.kind = "bytes" THEN detect_arg.len \div 2
                ELSE detect_arg.len
       IN  /\ engine_in.samples + engine_in.zeros = frame_length
           /\ engine_in.n = detect_arg.n
           /\ engine_in.samples = Min(s, frame_length)
           /\ engine_out.called

\* a frame one sample short was passed on with one zero sample added
C29_Witness ==
    /\ call = "detect"
    /\ detect_arg = AudioFrame("bytes", 1, 2 * frame_length - 2)
    /\ engine_in = Samples(1, frame_length - 1, 1)

\* C30: URL signing is deterministic: two create_url calls with the same
\* host, path, date, api key and api secret yield the same authorization
\* string and the same URL; and within one call the date that was signed
\* (inside the authorization) is the value of the URL's date query
\* parameter, which is the date of the one clock reading of the call.
C30_SigningDeterministic ==
    /\ \A i \in 1..Len(url_calls) : \A j \in 1..Len(url_calls) :
          (/\ url_calls[i].host = url_calls[j].host
           /\ url_calls[i].path = url_calls[j].path
           /\ url_calls[i].date = url_calls[j].date
           /\ url_calls[i].api_key = url_calls[j].api_key
           /\ url_calls[i].api_secret = url_calls[j].api_secret)
          => /\ url_calls[i].authorization = url_calls[j].authorization
             /\ url_calls[i].url = url_calls[j].url
    /\ \A i \in 1..Len(url_calls) :
          LET c == url_calls[i]
          IN  /\ c.url.query.date = c.authorization.b64.signature.b64.hmac[2].date
              /\ c.url.query.date = c.date
              /\ c.url.query.authorization = c.authorization

\* two calls of the same client at different instants of one second gave the
\* same URL, and the clock passed a second boundary during the second call
C30_Witness ==
    /\ call = "sign"
    /\ Len(url_calls) = 2
    /\ url_calls[1].client = url_calls[2].client
    /\ url_calls[1].now # url_calls[2].now
    /\ url_calls[1].date = url_calls[2].date
    /\ url_calls[1].url = url_calls[2].url
    /\ clock \div TicksPerSecond # url_calls[2].now \div TicksPerSecond

\* the shape of a message that applies: payload.audio when present, else the
\* top level, else data
ShapeOf(m) ==
    IF m.payload.present THEN m.payload
    ELSE IF m.top.present THEN m.top
    ELSE m.data

\* C31: for each inbound TTS message that is handled (valid JSON, no error
\* code) audio, status and seq are those of the shape that applies, and a
\* status of 2 in that shape marks the session finished and closes the
\* connection, whether or not the message carries audio data.
C31_FinalStatusInShape ==
    [][\A m \in TTSMsgs :
         (tts_on_message(m) /\ m.json_ok /\ ~tts_aborts(m))
         => /\ tts_extract(m).seq = ShapeOf(m).seq
            /\ tts_extract(m).status = ShapeOf(m).status
            /\ ShapeOf(m).status = 2
               => tts_is_finished' /\ tts_ws' = "closing"]_vars

\* C32: when a save file is configured, processing the final-status message
\* writes the file once, with the concatenation in arrival order of every
\* chunk decoded in this session, the final message's chunk included; when
\* no save file is configured nothing is written.  (A new session starts
\* with nothing put and nothing saved, so chunks of an earlier session would
\* show as a difference.)
C32_SavedOnFinal ==
    [][/\ \A m \in TTSMsgs :
            (tts_on_message(m) /\ m.json_ok /\ ~tts_aborts(m)
                /\ ShapeOf(m).status = 2)
            => saved' = IF save_to_file THEN Append(saved, join(PutAudio'))
                        ELSE saved
       /\ Len(saved') > Len(saved) => save_to_file /\ saved = <<>>]_vars

\* C33: the TTS playback queue is bounded: the number of decoded chunks
\* waiting in it never exceeds a fixed capacity, however much faster the
\* chunks arrive than they are played.  A capacity below the number of
\* chunks of a run is what the run can tell from none; the largest such is
\* taken.
C33_QueueBounded ==
    Len(tts_audio_queue) <= MaxTTSMsgs - 1

\* the earlier session's sender is still in its loop
OldSenderAlive == old_sender_pc \in {"check", "get"}

\* C34: a sender loop started for one ASR session never takes frames from
\* the queue of a later session of the same client, also when it has not
\* yet exited at the later start_recognition: every item put on the new
\* queue is taken by the new session's sender.
C34_OldSenderTakesNothing ==
    old_taken = <<>>

\* C35: callbacks of an earlier ASR session that run after start_recognition
\* has reset the client do not change the new session's completion flag or
\* accumulator: the new session is not marked finished by the earlier
\* connection's on_close or by a failure of the earlier sender, so its
\* wait_result does not return early because of them.
C35_OldCallbacksHarmless ==
    asr_end \notin {"old_close", "old_sender"}

\* C36: synthesize_and_play returns in every execution in which the
\* connection closes, under every interleaving of the receiver callback and
\* the playback thread, also when the playback loop ends early and when the
\* last chunk is put on the queue just as a queue read times out.
C36_SynthesisReturns ==
    (call = "tts" /\ tts_ws = "closed") ~> (tts_pc = "returned")

C38_InterimIdempotent ==
    (call = "asr" /\ n_msgs = 2 /\ asr_msg.status \in {0, 1})
    => result_text = asr_prev

\* a text has been delivered twice to an accumulator it was appended to
C38_Witness ==
    /\ call = "asr" /\ n_msgs = 2 /\ asr_msg.status \in {0, 1}
    /\ ProbedText = <<"hao", "ni">>
    /\ result_text = <<"ni", "hao", "hao", "ni">>

\* C39: in wake-word mode every path back to waiting for the wake word (no
\* audio recorded, empty transcript, exception while handling the utterance,
\* reply spoken) restarts the wake-word capture stream first: whenever the
\* loop is about to read a frame the stream is active.
C39_ListenOnActiveStream ==
    (call = "wake" /\ wake_pc = "listen") => wake_stream = "active"

\* the loop is back at the wake word after a reply, which is still heard
C39_Witness ==
    /\ call = "wake"
    /\ wake_pc = "listen"
    /\ wake_count >= 1
    /\ playback = "reply"
    /\ wake_stream = "active"

\* C40: in the classifier strategy, in every reachable state the ring buffer
\* holds at most padding_frames entries; before triggering the utterance
\* buffer is empty and should_stop is false; buffered audio is returned (not
\* None) exactly on the frames where should_stop is true; and once triggered
\* the detector stays triggered until reset.
C40_LiteInvariants ==
    /\ [](/\ Len(ring_buffer) <= padding_frames
          /\ ~triggered => (voiced_frames = <<>> /\ ~lite_ret.should_stop)
          /\ lite_ret.should_stop <=> ~lite_ret.buffered_audio.none)
    /\ [][(triggered /\ ~triggered')
            => (lite_total_frames' = 0 /\ lite_hist' = <<>>)]_vars

\* a triggered detector with a full ring has returned its buffer on a
\* stopping frame
C40_Witness ==
    /\ call = "lite"
    /\ triggered
    /\ padding_frames > 0
    /\ Len(ring_buffer) = padding_frames
    /\ lite_ret.should_stop
    /\ ~lite_ret.buffered_audio.none
    /\ lite_ret.buffered_audio.data # <<>>

====
